---------------------------- MODULE Spec2Model ----------------------------
(***************************************************************************)
(* Survey data validation: the rule-to-script generators of 27app.py and   *)
(* 27novapp.py.  The generators turn stored rules into SPSS statements.    *)
(* Here a statement is a record holding the parts the generator            *)
(* interpolates (names, numbers, user text) and the condition as a tree,   *)
(* and Exec gives the statements their SPSS meaning on one respondent.     *)
(*                                                                         *)
(* Names (columns, flags) are sequences of one-character strings, so that  *)
(* split('_'), startswith, endswith and sorted() are computed, not assumed.*)
(***************************************************************************)
EXTENDS Integers, Sequences, FiniteSets, TLC

VARIABLES
    app,                  \* which program runs: "app" (27app.py) or "nov" (27novapp.py)
    uploaded_file,        \* the data file of the sidebar uploader
    all_cols,             \* st.session_state.all_cols
    var_types,            \* st.session_state.var_types (27app.py), the loaded column types
    sq_rules,             \* st.session_state.sq_rules
    mq_rules,             \* st.session_state.mq_rules
    ranking_rules,        \* st.session_state.ranking_rules
    string_rules,         \* st.session_state.string_rules
    straightliner_rules,  \* st.session_state.straightliner_rules
    script,               \* the generated statements (final syntax), <<>> before generation
    flag_cols,            \* the flag names the generators returned (all_flag_cols)
    row,                  \* the respondent the script ran on: column -> value, <<>> before a run
    env,                  \* the variables the script has created so far: name -> value
    phase,                \* "rules" -> "generated" -> "ran"
    sq_batch_vars,        \* st.session_state.sq_batch_vars, the pending single-select batch
    tmp_files,            \* the temporary files of load_data_file that are on the disk
    load_error            \* what the latest load_data_file raised or reported, "none" if it returned

vars == <<app, uploaded_file, all_cols, var_types, sq_rules, mq_rules, ranking_rules, string_rules,
          straightliner_rules, script, flag_cols, row, env, phase, sq_batch_vars, tmp_files,
          load_error>>

----------------------------------------------------------------------------
(* Characters and names *)

\* Code points of the characters that occur in names, in Python's order.
Ord(c) ==
    CASE c = "#" -> 35
      [] c = "*" -> 42
      [] c = "-" -> 45
      [] c = "0" -> 48 [] c = "1" -> 49 [] c = "2" -> 50 [] c = "3" -> 51
      [] c = "4" -> 52 [] c = "5" -> 53 [] c = "6" -> 54 [] c = "7" -> 55
      [] c = "8" -> 56 [] c = "9" -> 57
      [] c = "A" -> 65 [] c = "C" -> 67 [] c = "D" -> 68 [] c = "E" -> 69
      [] c = "F" -> 70 [] c = "J" -> 74 [] c = "M" -> 77 [] c = "N" -> 78
      [] c = "O" -> 79 [] c = "Q" -> 81 [] c = "R" -> 82 [] c = "S" -> 83
      [] c = "T" -> 84 [] c = "V" -> 86
      [] c = "_" -> 95
      [] c = "a" -> 97 [] c = "c" -> 99 [] c = "d" -> 100 [] c = "e" -> 101
      [] c = "g" -> 103 [] c = "h" -> 104 [] c = "i" -> 105 [] c = "j" -> 106
      [] c = "k" -> 107 [] c = "l" -> 108 [] c = "m" -> 109 [] c = "n" -> 110
      [] c = "o" -> 111 [] c = "p" -> 112 [] c = "r" -> 114 [] c = "s" -> 115
      [] c = "t" -> 116 [] c = "u" -> 117 [] c = "v" -> 118 [] c = "w" -> 119
      [] c = "x" -> 120 [] c = "y" -> 121
      [] OTHER -> 32

\* str.startswith
StartsWith(s, p) == Len(s) >= Len(p) /\ SubSeq(s, 1, Len(p)) = p

\* str.endswith
EndsWith(s, p) == Len(s) >= Len(p) /\ SubSeq(s, Len(s) - Len(p) + 1, Len(s)) = p

\* '_' in s
HasUnderscore(s) == \E i \in 1..Len(s) : s[i] = "_"

\* s.split('_')[0]: the characters before the first underscore, all of s without one.
SplitFirst(s) ==
    IF HasUnderscore(s)
    THEN LET i == CHOOSE k \in 1..Len(s) : s[k] = "_" /\ \A j \in 1..(k - 1) : s[j] # "_"
         IN  SubSeq(s, 1, i - 1)
    ELSE s

\* s.split('_')[-1]: the characters after the last underscore.
SplitLast(s) ==
    IF HasUnderscore(s)
    THEN LET i == CHOOSE k \in 1..Len(s) : s[k] = "_" /\ \A j \in (k + 1)..Len(s) : s[j] # "_"
         IN  SubSeq(s, i + 1, Len(s))
    ELSE s

\* Python's order on strings: a < b.
RECURSIVE StrLess(_, _)
StrLess(a, b) ==
    IF a = <<>> THEN b # <<>>
    ELSE IF b = <<>> THEN FALSE
    ELSE IF Ord(Head(a)) # Ord(Head(b)) THEN Ord(Head(a)) < Ord(Head(b))
    ELSE StrLess(Tail(a), Tail(b))

\* sorted(list(set(xs))) for a sequence of names.
RECURSIVE SortSet(_)
SortSet(S) ==
    IF S = {} THEN <<>>
    ELSE LET m == CHOOSE x \in S : \A y \in S \ {x} : StrLess(x, y)
         IN  <<m>> \o SortSet(S \ {m})

Elems(xs) == {xs[i] : i \in 1..Len(xs)}

SortedUnique(xs) == SortSet(Elems(xs))

\* The flattening of a sequence of sequences.
RECURSIVE Flatten(_)
Flatten(xss) == IF xss = <<>> THEN <<>> ELSE Head(xss) \o Flatten(Tail(xss))

FLAG_PREFIX == <<"x", "x">>

\* The dropdown placeholder '-- Select Variable --'; no column has this name.
SELECT_VARIABLE == <<"-", "-", " ", "S", "e", "l", "e", "c", "t", " ", "V", "a", "r", "i", "a", "b", "l", "e", " ", "-", "-">>

\* The selectbox entry 'None' of the multi-select form.
NONE_OPTION == <<"N", "o", "n", "e">>

\* Python's None where the field is a name or a list; falsy like the empty string.
NoName == <<>>

----------------------------------------------------------------------------
(* Values of a respondent and SPSS's evaluation of conditions *)

\* A value: a number, the numeric system-missing value, a text, or a missing text.
NumV(n) == [k |-> "num", n |-> n, s |-> <<>>]
SysMis  == [k |-> "sys", n |-> 0, s |-> <<>>]
StrV(s) == [k |-> "str", n |-> 0, s |-> s]
NulStr  == [k |-> "nul", n |-> 0, s |-> <<>>]
ErrV    == [k |-> "err", n |-> 0, s |-> <<>>]

IsNumeric(v) == v.k \in {"num", "sys"}
IsText(v) == v.k \in {"str", "nul"}
IsMissingValue(v) == v.k \in {"sys", "nul"}

\* RTRIM: the text without its trailing blanks.
RECURSIVE RTrim(_)
RTrim(s) == IF s # <<>> /\ s[Len(s)] = " " THEN RTrim(SubSeq(s, 1, Len(s) - 1)) ELSE s

IsDigit(c) == c \in {"0", "1", "2", "3", "4", "5", "6", "7", "8", "9"}

\* The number a run of digits denotes.
RECURSIVE ParseDigits(_)
ParseDigits(s) ==
    IF s = <<>> THEN 0 ELSE 10 * ParseDigits(SubSeq(s, 1, Len(s) - 1)) + (Ord(s[Len(s)]) - 48)

\* Terms of a condition.
Var(name)      == [t |-> "var", name |-> name, n |-> 0, s |-> <<>>, fn |-> "", args |-> <<>>]
NumLit(n)      == [t |-> "num", name |-> <<>>, n |-> n, s |-> <<>>, fn |-> "", args |-> <<>>]
RawLit(txt)    == [t |-> "raw", name |-> <<>>, n |-> 0, s |-> txt, fn |-> "", args |-> <<>>]
StrLit(txt)    == [t |-> "str", name |-> <<>>, n |-> 0, s |-> txt, fn |-> "", args |-> <<>>]
LenRtrim(name) == [t |-> "len", name |-> name, n |-> 0, s |-> <<>>, fn |-> "", args |-> <<>>]
FnOf(fn, args) == [t |-> "fn", name |-> <<>>, n |-> 0, s |-> <<>>, fn |-> fn, args |-> args]

\* Conditions.
Miss(name)           == [op |-> "miss", name |-> name]
Not(a)               == [op |-> "not", a |-> a]
And(a, b)            == [op |-> "and", a |-> a, b |-> b]
Or(a, b)             == [op |-> "or", a |-> a, b |-> b]
Cmp(l, rel, r)       == [op |-> "cmp", rel |-> rel, l |-> l, r |-> r]
InRange(name, lo, hi) == [op |-> "range", name |-> name, lo |-> lo, hi |-> hi]
AnyOf(name, stubs)   == [op |-> "any", name |-> name, stubs |-> stubs]

\* The value of a variable in the working file: st maps the names that exist.
Lookup(st, name) == IF name \in DOMAIN st THEN st[name] ELSE ErrV

\* The sum of a sequence of numbers.
RECURSIVE SumSeq(_)
SumSeq(ns) == IF ns = <<>> THEN 0 ELSE Head(ns) + SumSeq(Tail(ns))

\* SUM, MIN, MAX over a variable list: the statistic of the values that are not
\* missing, system-missing when there is none.  COUNT(list), which the multi-select
\* generator offers as "calculation method", is read as the number of selected
\* (= 1) items.  "SUM+" is SUM(a + b + ...): missing when one operand is.
\* ErrV when the list is empty or names a text or unknown variable.
Aggregate(st, fn, args) ==
    LET vals == [i \in 1..Len(args) |-> Lookup(st, args[i])]
        nums == SelectSeq(vals, LAMBDA v : v.k = "num")
        ns == [i \in 1..Len(nums) |-> nums[i].n]
    IN  IF args = <<>> \/ \E i \in 1..Len(vals) : ~IsNumeric(vals[i]) THEN ErrV
        ELSE CASE fn = "COUNT" -> NumV(Cardinality({i \in 1..Len(ns) : ns[i] = 1}))
               [] fn = "SUM+" -> IF Len(ns) < Len(vals) THEN SysMis ELSE NumV(SumSeq(ns))
               [] ns = <<>> -> SysMis
               [] fn = "SUM" -> NumV(SumSeq(ns))
               [] fn = "MIN" -> NumV(CHOOSE m \in Elems(ns) : \A x \in Elems(ns) : m <= x)
               [] fn = "MAX" -> NumV(CHOOSE m \in Elems(ns) : \A x \in Elems(ns) : m >= x)

\* The value of a term; ErrV when the command is invalid (unknown variable, a text
\* where a number is needed, user text that is no number).
TermVal(st, t) ==
    CASE t.t = "var" -> Lookup(st, t.name)
      [] t.t = "num" -> NumV(t.n)
      [] t.t = "raw" -> IF t.s # <<>> /\ \A i \in 1..Len(t.s) : IsDigit(t.s[i])
                        THEN NumV(ParseDigits(t.s)) ELSE ErrV
      [] t.t = "str" -> StrV(t.s)
      [] t.t = "len" -> LET v == Lookup(st, t.name)
                        IN  CASE v.k = "str" -> NumV(Len(RTrim(v.s)))
                              [] v.k = "nul" -> SysMis
                              [] OTHER -> ErrV
      [] t.t = "fn" -> Aggregate(st, t.fn, t.args)

\* A comparison: "M" (missing) when an operand is missing, "E" when the operands
\* are of different types.  Texts compare after their trailing blanks.
CmpVal(a, rel, b) ==
    CASE a.k = "err" \/ b.k = "err" -> "E"
      [] IsNumeric(a) /\ IsNumeric(b) ->
            IF a.k = "sys" \/ b.k = "sys" THEN "M"
            ELSE LET holds == CASE rel = "=" -> a.n = b.n
                                [] rel = "<>" -> a.n # b.n
                                [] rel = "<" -> a.n < b.n
                                [] rel = ">" -> a.n > b.n
                 IN  IF holds THEN "T" ELSE "F"
      [] IsText(a) /\ IsText(b) ->
            IF a.k = "nul" \/ b.k = "nul" THEN "M"
            ELSE LET same == RTrim(a.s) = RTrim(b.s)
                 IN  CASE rel = "=" -> IF same THEN "T" ELSE "F"
                       [] rel = "<>" -> IF same THEN "F" ELSE "T"
                       [] OTHER -> "E"
      [] OTHER -> "E"

NotVal(x) == CASE x = "T" -> "F" [] x = "F" -> "T" [] OTHER -> x

AndVal(x, y) ==
    CASE x = "E" \/ y = "E" -> "E"
      [] x = "F" \/ y = "F" -> "F"
      [] x = "M" \/ y = "M" -> "M"
      [] OTHER -> "T"

OrVal(x, y) ==
    CASE x = "E" \/ y = "E" -> "E"
      [] x = "T" \/ y = "T" -> "T"
      [] x = "M" \/ y = "M" -> "M"
      [] OTHER -> "F"

\* SPSS's three-valued evaluation of a condition: "T", "F", "M" or "E".
RECURSIVE Eval(_, _)
Eval(st, c) ==
    CASE c.op = "miss" ->
            LET v == Lookup(st, c.name)
            IN  IF v.k = "err" THEN "E" ELSE IF IsMissingValue(v) THEN "T" ELSE "F"
      [] c.op = "not" -> NotVal(Eval(st, c.a))
      [] c.op = "and" -> AndVal(Eval(st, c.a), Eval(st, c.b))
      [] c.op = "or" -> OrVal(Eval(st, c.a), Eval(st, c.b))
      [] c.op = "cmp" -> CmpVal(TermVal(st, c.l), c.rel, TermVal(st, c.r))
      [] c.op = "range" ->
            LET v == Lookup(st, c.name)
            IN  CASE v.k = "num" -> IF c.lo <= v.n /\ v.n <= c.hi THEN "T" ELSE "F"
                  [] v.k = "sys" -> "M"
                  [] OTHER -> "E"
      [] c.op = "any" ->
            LET v == Lookup(st, c.name)
            IN  CASE v.k = "num" -> IF \E i \in 1..Len(c.stubs) : c.stubs[i] = v.n
                                    THEN "T" ELSE "F"
                  [] v.k = "sys" -> "M"
                  [] OTHER -> "E"

\* The variables a term or a condition reads.
TermVars(t) ==
    IF t.t \in {"var", "len"} THEN {t.name} ELSE IF t.t = "fn" THEN {t.args[i] : i \in 1..Len(t.args)} ELSE {}

RECURSIVE CondVars(_)
CondVars(c) ==
    CASE c.op \in {"miss", "range", "any"} -> {c.name}
      [] c.op = "not" -> CondVars(c.a)
      [] c.op \in {"and", "or"} -> CondVars(c.a) \cup CondVars(c.b)
      [] c.op = "cmp" -> TermVars(c.l) \cup TermVars(c.r)

----------------------------------------------------------------------------
(* Statements: one record per emitted line *)

\* A comment line; args are the names and user texts the generator interpolates
\* into it, nums the numbers.
Comment(text, args, nums) == [s |-> "comment", text |-> text, args |-> args, nums |-> nums]
\* IF(cond) tgt=val.
IfStmt(cond, tgt, val) == [s |-> "if", cond |-> cond, tgt |-> tgt, val |-> val]
\* ELSE tgt=val.
ElseStmt(tgt, val) == [s |-> "else", tgt |-> tgt, val |-> val]
\* COMPUTE tgt = fn(args).
Compute(tgt, fn, args) == [s |-> "compute", tgt |-> tgt, fn |-> fn, args |-> args]
\* COMPUTE tgt = n.
ComputeConst(tgt, n) == [s |-> "const", tgt |-> tgt, val |-> n]
Execute == [s |-> "execute"]
DeleteVars(names) == [s |-> "delete", names |-> names]
DeletePrefix(p) == [s |-> "deleteprefix", prefix |-> p]
Numeric(names) == [s |-> "numeric", names |-> names]
Recode0(names) == [s |-> "recode0", names |-> names]
ValueLabels(name, kind) == [s |-> "valuelabels", name |-> name, kind |-> kind]
VariableLabels(name) == [s |-> "variablelabels", name |-> name]
Frequencies(names) == [s |-> "frequencies", names |-> names]
Loop(v, lo, hi) == [s |-> "loop", v |-> v, lo |-> lo, hi |-> hi]
\* COUNT tgt = vars (v).
CountStmt(tgt, names, v) == [s |-> "count", tgt |-> tgt, names |-> names, v |-> v]
EndLoop == [s |-> "endloop"]
\* A fixed line of the script (header, section title, DATASET ACTIVATE, SET).
Line(text) == [s |-> "line", text |-> text]

\* What a generator returns: the statements and the flag names.
Block(syntax, flags) == [syntax |-> syntax, flags |-> flags]

\* Python's None for an optional number.
NoNum == -1

\* Python's truth of an optional number: None and 0 are false.
Truthy(n) == n # NoNum /\ n # 0

Flag_ == <<"F", "l", "a", "g", "_">>
Suffix_Rng == <<"_", "R", "n", "g">>
Suffix_Any == <<"_", "A", "n", "y">>
Suffix_OtherFwd == <<"_", "O", "t", "h", "e", "r", "F", "w", "d">>
Suffix_OtherRev == <<"_", "O", "t", "h", "e", "r", "R", "e", "v">>
Suffix_Count == <<"_", "C", "o", "u", "n", "t">>
Suffix_Min == <<"_", "M", "i", "n">>
Suffix_Max == <<"_", "M", "a", "x">>
Suffix_Exclusive == <<"_", "E", "x", "c", "l", "u", "s", "i", "v", "e">>
Suffix_Junk == <<"_", "J", "u", "n", "k">>
Suffix_Miss == <<"_", "M", "i", "s", "s">>
Suffix_MaxStr == <<"_", "M", "a", "x", "S", "t", "r">>
Suffix_Dup == <<"_", "D", "u", "p">>
Suffix_Skip == <<"_", "S", "k", "i", "p">>
Suffix_Str == <<"_", "S", "t", "r">>
Suffix_Sum == <<"_", "S", "u", "m">>
Scratch_Other_Count == <<"#", "O", "t", "h", "e", "r", "_", "C", "o", "u", "n", "t">>
Scratch_Min_Val == <<"#", "M", "i", "n", "_", "V", "a", "l">>
Scratch_Max_Val == <<"#", "M", "a", "x", "_", "V", "a", "l">>
Scratch_rank == <<"#", "r", "a", "n", "k">>
Scratch_rank_count == <<"#", "r", "a", "n", "k", "_", "c", "o", "u", "n", "t">>
Name_MQ_Set == <<"M", "Q", "_", "S", "e", "t">>
Name_Rating_Set == <<"R", "a", "t", "i", "n", "g", "_", "S", "e", "t">>
Name_Rank_Set == <<"R", "a", "n", "k", "_", "S", "e", "t">>
Name_Master_Reject_Count == <<"M", "a", "s", "t", "e", "r", "_", "R", "e", "j", "e", "c", "t", "_", "C", "o", "u", "n", "t">>
Prefix_T_ == <<"T", "_">>

----------------------------------------------------------------------------
(* 27novapp.py: the generators *)

\* target_clean of generate_skip_spss_syntax, generate_other_specify_spss_syntax
\* and generate_sq_spss_syntax.
TargetClean(col) == IF HasUnderscore(col) THEN SplitFirst(col) ELSE col

generate_skip_spss_syntax(target_col, trigger_col, trigger_val, rule_type, range_min, range_max) ==
    LET target_clean == TargetClean(target_col)
        filter_flag == Flag_ \o target_clean
        final_error_flag == FLAG_PREFIX \o target_clean
        isSQ == rule_type = "SQ" /\ range_min # NoNum /\ range_max # NoNum
        eoo_condition ==
            IF isSQ THEN Or(Miss(target_col), Not(InRange(target_col, range_min, range_max)))
            ELSE IF rule_type = "String" THEN Cmp(Var(target_col), "=", StrLit(<<>>))
            ELSE Miss(target_col)
        eoc_condition ==
            IF isSQ THEN Not(Miss(target_col))
            ELSE IF rule_type = "String" THEN Cmp(Var(target_col), "<>", StrLit(<<>>))
            ELSE Not(Miss(target_col))
    IN  Block(
          << Comment("SKIP LOGIC FILTER FLAG", <<trigger_col, trigger_val, target_clean>>, <<>>),
             Comment("Qx should ONLY be asked if", <<trigger_col, trigger_val>>, <<>>),
             IfStmt(Cmp(Var(trigger_col), "=", RawLit(trigger_val)), filter_flag, 1),
             Execute,
             Comment("SKIP LOGIC EoO/EoC CHECK", <<target_col, final_error_flag>>, <<>>),
             Comment("EoO (1)", <<filter_flag>>, <<>>),
             IfStmt(And(Cmp(Var(filter_flag), "=", NumLit(1)), eoo_condition), final_error_flag, 1),
             Comment("EoC (2)", <<filter_flag, filter_flag>>, <<>>),
             IfStmt(And(Or(Cmp(Var(filter_flag), "<>", NumLit(1)), Miss(filter_flag)), eoc_condition),
                    final_error_flag, 2),
             Execute >>,
          <<filter_flag, final_error_flag>>)

\* A piping check that is the skip check on the piping source.
generate_piping_as_skip(target_col, overall_skip_filter_flag, piping_source_col, piping_stub_val) ==
    generate_skip_spss_syntax(target_col, piping_source_col, <<"1">>, "SQ", NoNum, NoNum)

generate_other_specify_spss_syntax(main_col, other_col, other_stub_val) ==
    LET main_clean == TargetClean(main_col)
        flag_name_fwd == FLAG_PREFIX \o main_clean \o Suffix_OtherFwd
        flag_name_rev == FLAG_PREFIX \o main_clean \o Suffix_OtherRev
    IN  Block(
          << Comment("OTHER SPECIFY (Forward) Check", <<main_col, other_col>>, <<other_stub_val>>),
             Comment("EoO (1): Main selected", <<main_col>>, <<other_stub_val>>),
             IfStmt(And(Cmp(Var(main_col), "=", NumLit(other_stub_val)),
                        Cmp(Var(other_col), "=", StrLit(<<>>))), flag_name_fwd, 1),
             Execute,
             Comment("OTHER SPECIFY (Reverse) Check", <<other_col, main_col>>, <<other_stub_val>>),
             Comment("EoC (2): Other has data", <<other_col, other_col>>, <<>>),
             IfStmt(And(And(Not(Miss(other_col)), Cmp(Var(other_col), "<>", StrLit(<<>>))),
                        Cmp(Var(main_col), "<>", NumLit(other_stub_val))), flag_name_rev, 1),
             Execute >>,
          <<flag_name_fwd, flag_name_rev>>)

\* A commission condition that looks at the answer only.
piping_eoc_any_answer(target_col, overall_skip_filter_flag, piping_source_col, piping_stub_val) ==
    Not(Miss(target_col))

\* eoc_condition of generate_piping_spss_syntax.
piping_eoc_condition(target_col, overall_skip_filter_flag, piping_source_col, piping_stub_val) ==
    And(Or(Or(Or(Cmp(Var(overall_skip_filter_flag), "<>", NumLit(1)),
                 Miss(overall_skip_filter_flag)),
              Cmp(Var(piping_source_col), "<>", NumLit(piping_stub_val))),
           Miss(piping_source_col)),
        Not(Miss(target_col)))

generate_piping_spss_syntax(target_col, overall_skip_filter_flag, piping_source_col, piping_stub_val) ==
    LET flag_col == FLAG_PREFIX \o target_col
        eoc_condition == piping_eoc_condition(target_col, overall_skip_filter_flag, piping_source_col,
                                              piping_stub_val)
    IN  Block(
          << Comment("PIPING (EOO) Check",
                     <<overall_skip_filter_flag, piping_source_col, target_col>>,
                     <<piping_stub_val, piping_stub_val>>),
             Comment("EoO (1): Piping/Skip met", <<>>, <<>>),
             IfStmt(And(And(Cmp(Var(overall_skip_filter_flag), "=", NumLit(1)),
                            Cmp(Var(piping_source_col), "=", NumLit(piping_stub_val))),
                        Cmp(Var(target_col), "<>", NumLit(piping_stub_val))), flag_col, 1),
             Comment("PIPING (EOC / Reverse) Check", <<target_col>>, <<>>),
             Comment("EoC (2): Skip/Piping not met", <<>>, <<>>),
             IfStmt(eoc_condition, flag_col, 2),
             Execute >>,
          <<flag_col>>)

\* A stored single-select rule has a valid other-specify variable.
HasOther(rule) == rule.other_var # NoName /\ rule.other_var # SELECT_VARIABLE

generate_sq_spss_syntax(rule) ==
    LET col == rule.variable
        min_val == rule.min_val
        max_val == rule.max_val
        target_clean == TargetClean(col)
        filter_flag == Flag_ \o target_clean
        flag_name == FLAG_PREFIX \o col \o Suffix_Rng
        flag_any == FLAG_PREFIX \o col \o Suffix_Any
        rng == IF ~rule.run_piping_check
               THEN Block(<< Comment("SQ Missing/Range Check", <<col>>, <<min_val, max_val>>),
                             IfStmt(Or(Miss(col), Not(InRange(col, min_val, max_val))), flag_name, 1),
                             Execute >>,
                          <<flag_name>>)
               ELSE Block(<<>>, <<>>)
        stub == IF rule.required_stubs # <<>>
                THEN Block(<< Comment("SQ Specific Stub Check", <<col>>, rule.required_stubs),
                              IfStmt(And(Not(Miss(col)), Not(AnyOf(col, rule.required_stubs))), flag_any, 1),
                              Execute >>,
                           <<flag_any>>)
                ELSE Block(<<>>, <<>>)
        other == IF HasOther(rule)
                 THEN generate_other_specify_spss_syntax(col, rule.other_var, rule.other_stub_val)
                 ELSE Block(<<>>, <<>>)
        combined ==
            IF (rule.run_skip \/ rule.run_piping_check) /\ rule.trigger_col # SELECT_VARIABLE
            THEN LET filt == Block(<< Comment("SQ Filter Flag for Skip/Piping", <<filter_flag>>, <<>>),
                                      Comment("Filter for", <<target_clean, rule.trigger_col, rule.trigger_val>>, <<>>),
                                      IfStmt(Cmp(Var(rule.trigger_col), "=", RawLit(rule.trigger_val)),
                                             filter_flag, 1),
                                      Execute >>,
                                   <<filter_flag>>)
                     rest == IF rule.run_piping_check /\ rule.piping_source_col # SELECT_VARIABLE
                             THEN generate_piping_spss_syntax(col, filter_flag, rule.piping_source_col,
                                                              rule.piping_stub_val)
                             ELSE IF rule.run_skip
                             THEN generate_skip_spss_syntax(col, rule.trigger_col, rule.trigger_val,
                                                            "SQ", min_val, max_val)
                             ELSE Block(<<>>, <<>>)
                 IN  Block(filt.syntax \o rest.syntax, filt.flags \o rest.flags)
            ELSE Block(<<>>, <<>>)
    IN  Block(rng.syntax \o stub.syntax \o other.syntax \o combined.syntax,
              rng.flags \o stub.flags \o other.flags \o combined.flags)

\* The straightliner check without the test of the first variable.
generate_straightliner_spss_syntax_min_max_only(cols) ==
    LET set_name == IF cols # <<>> THEN SplitFirst(cols[1]) ELSE Name_Rating_Set
        flag_name_max_str == FLAG_PREFIX \o set_name \o Suffix_MaxStr
    IN  Block(
          << Comment("STRAIGHTLINER CHECK", <<set_name>>, <<>>),
             Comment("Check if the minimum value equals the maximum value", <<>>, <<>>),
             Compute(Scratch_Min_Val, "MIN", cols),
             Compute(Scratch_Max_Val, "MAX", cols),
             IfStmt(Cmp(Var(Scratch_Min_Val), "=", Var(Scratch_Max_Val)),
                    flag_name_max_str, 1),
             Execute,
             DeleteVars(<<Scratch_Min_Val, Scratch_Max_Val>>),
             Execute >>,
          <<flag_name_max_str>>)

generate_straightliner_spss_syntax(cols) ==
    LET set_name == IF cols # <<>> THEN SplitFirst(cols[1]) ELSE Name_Rating_Set
        flag_name_max_str == FLAG_PREFIX \o set_name \o Suffix_MaxStr
    IN  Block(
          << Comment("STRAIGHTLINER CHECK", <<set_name>>, <<>>),
             Comment("Check if the minimum value equals the maximum value", <<>>, <<>>),
             Compute(Scratch_Min_Val, "MIN", cols),
             Compute(Scratch_Max_Val, "MAX", cols),
             IfStmt(And(Cmp(Var(Scratch_Min_Val), "=", Var(Scratch_Max_Val)), Not(Miss(cols[1]))),
                    flag_name_max_str, 1),
             Execute,
             DeleteVars(<<Scratch_Min_Val, Scratch_Max_Val>>),
             Execute >>,
          <<flag_name_max_str>>)

\* [c for c in cols if c != x]
Without(cols, x) == SelectSeq(cols, LAMBDA c : c # x)

\* The minimum count check without the test of the first variable.
mq_min_condition_count_only(mq_sum_var, min_count, first) ==
    Cmp(Var(mq_sum_var), "<", NumLit(min_count))

\* The maximum count check emitted for every max_count but 0, None included.
mq_has_max_unless_zero(rule) == rule.max_count # 0

\* The condition of the minimum count check: count < min & ~miss(first variable).
mq_min_condition(mq_sum_var, min_count, first) ==
    And(Cmp(Var(mq_sum_var), "<", NumLit(min_count)), Not(Miss(first)))

\* if rule['max_count'] and rule['max_count'] > 0
mq_has_max(rule) == Truthy(rule.max_count) /\ rule.max_count > 0

generate_mq_spss_syntax(rule) ==
    LET cols == rule.variables
        mq_set_name == IF cols # <<>> THEN SplitFirst(cols[1]) ELSE Name_MQ_Set
        calc_func == IF rule.count_method = "SUM" THEN "SUM" ELSE "COUNT"
        mq_sum_var == mq_set_name \o Suffix_Count
        flag_min == FLAG_PREFIX \o mq_set_name \o Suffix_Min
        flag_max == FLAG_PREFIX \o mq_set_name \o Suffix_Max
        flag_exclusive == FLAG_PREFIX \o mq_set_name \o Suffix_Exclusive
        count == Block(<< Comment("MQ Count Calculation for Set", <<mq_set_name>>, <<>>),
                          Compute(mq_sum_var, calc_func, cols),
                          Execute >>,
                       <<mq_sum_var>>)
        minc == Block(<< Comment("MQ Minimum Count Check", <<mq_set_name>>, <<rule.min_count>>),
                         IfStmt(mq_min_condition(mq_sum_var, rule.min_count, cols[1]), flag_min, 1),
                         Execute >>,
                      <<flag_min>>)
        maxc == IF mq_has_max(rule)
                THEN Block(<< Comment("MQ Maximum Count Check", <<mq_set_name>>, <<rule.max_count>>),
                              IfStmt(Cmp(Var(mq_sum_var), ">", NumLit(rule.max_count)), flag_max, 1),
                              Execute >>,
                           <<flag_max>>)
                ELSE Block(<<>>, <<>>)
        excl == IF rule.exclusive_col # NoName /\ rule.exclusive_col # NONE_OPTION
                   /\ rule.exclusive_col \in Elems(cols)
                THEN Block(<< Comment("MQ Exclusive Stub Check", <<rule.exclusive_col>>, <<>>),
                              Compute(Scratch_Other_Count, "SUM", Without(cols, rule.exclusive_col)),
                              IfStmt(And(Cmp(Var(rule.exclusive_col), "=", NumLit(1)),
                                         Cmp(Var(Scratch_Other_Count), ">", NumLit(0))), flag_exclusive, 1),
                              Execute,
                              DeleteVars(<<Scratch_Other_Count>>) >>,
                           <<flag_exclusive>>)
                ELSE Block(<<>>, <<>>)
        other == IF rule.other_var # NoName /\ rule.other_var # NONE_OPTION
                    /\ rule.other_checkbox_col # NoName /\ rule.other_checkbox_col # NONE_OPTION
                 THEN generate_other_specify_spss_syntax(rule.other_checkbox_col, rule.other_var,
                                                         rule.other_stub_val)
                 ELSE Block(<<>>, <<>>)
        skip == IF rule.run_skip /\ rule.trigger_col # SELECT_VARIABLE
                THEN generate_skip_spss_syntax(mq_set_name, rule.trigger_col, rule.trigger_val,
                                               "MQ", NoNum, NoNum)
                ELSE Block(<<>>, <<>>)
    IN  Block(count.syntax \o minc.syntax \o maxc.syntax \o excl.syntax \o other.syntax \o skip.syntax,
              count.flags \o minc.flags \o maxc.flags \o excl.flags \o other.flags \o skip.flags)

\* The junk check without the test for the empty text.
junk_condition_length_only(col, min_length) ==
    And(Not(Miss(col)), Cmp(LenRtrim(col), "<", NumLit(min_length)))

\* The condition of the junk check: answered and shorter than min_length once trimmed.
junk_condition(col, min_length) ==
    And(And(Not(Miss(col)), Cmp(Var(col), "<>", StrLit(<<>>))),
        Cmp(LenRtrim(col), "<", NumLit(min_length)))

\* The condition of the missing check of an open end.
string_missing_condition(col) == Cmp(Var(col), "=", StrLit(<<>>))

generate_string_spss_syntax(rule) ==
    LET col == rule.variable
        min_length == rule.min_length
        flag_length == FLAG_PREFIX \o col \o Suffix_Junk
        flag_missing == FLAG_PREFIX \o col \o Suffix_Miss
        junk == IF Truthy(min_length) /\ min_length > 0
                THEN Block(<< Comment("String Junk Check", <<col>>, <<min_length>>),
                              IfStmt(junk_condition(col, min_length), flag_length, 1),
                              Execute >>,
                           <<flag_length>>)
                ELSE Block(<<>>, <<>>)
        missing == IF ~rule.run_skip
                   THEN Block(<< Comment("String Missing Check", <<col>>, <<>>),
                                 IfStmt(string_missing_condition(col), flag_missing, 1),
                                 Execute >>,
                              <<flag_missing>>)
                   ELSE Block(<<>>, <<>>)
        skip == IF rule.run_skip /\ rule.trigger_col # SELECT_VARIABLE
                THEN generate_skip_spss_syntax(col, rule.trigger_col, rule.trigger_val,
                                               "String", NoNum, NoNum)
                ELSE Block(<<>>, <<>>)
    IN  Block(junk.syntax \o missing.syntax \o skip.syntax,
              junk.flags \o missing.flags \o skip.flags)

generate_ranking_spss_syntax(rule) ==
    LET cols == rule.variables
        min_rank == rule.min_rank
        max_rank == rule.max_rank
        rank_set_name == IF cols # <<>> THEN SplitFirst(cols[1]) ELSE Name_Rank_Set
        flag_duplicate == FLAG_PREFIX \o rank_set_name \o Suffix_Dup
        flag_range_name == FLAG_PREFIX \o rank_set_name \o Suffix_Rng
        dup == << Comment("Ranking Duplicate Check", <<rank_set_name>>, <<>>),
                  ComputeConst(flag_duplicate, 0),
                  Loop(Scratch_rank, min_rank, max_rank),
                  CountStmt(Scratch_rank_count, cols, Scratch_rank),
                  IfStmt(Cmp(Var(Scratch_rank_count), ">", NumLit(1)), flag_duplicate, 1),
                  EndLoop,
                  Execute >>
        rng == << Comment("Ranking Range Check", <<rank_set_name>>, <<min_rank, max_rank>>),
                  ComputeConst(flag_range_name, 0) >>
               \o [i \in 1..Len(cols) |->
                      IfStmt(And(Not(Miss(cols[i])), Not(InRange(cols[i], min_rank, max_rank))),
                             flag_range_name, 1)]
               \o << Execute >>
        skip == IF rule.run_skip /\ rule.trigger_col # SELECT_VARIABLE
                THEN generate_skip_spss_syntax(rank_set_name, rule.trigger_col, rule.trigger_val,
                                               "Ranking", NoNum, NoNum)
                ELSE Block(<<>>, <<>>)
    IN  Block(dup \o rng \o skip.syntax, <<flag_duplicate, flag_range_name>> \o skip.flags)

\* f.endswith(('_Miss', '_Junk'))
IsStringFlag(f) == EndsWith(f, Suffix_Miss) \/ EndsWith(f, Suffix_Junk)

\* The suffixes that label a flag 'Fail: Data Check'.
DataCheckSuffixes ==
    {Suffix_Rng, Suffix_Any, Suffix_OtherFwd, Suffix_OtherRev, Suffix_Min, Suffix_Max,
     Suffix_Dup, Suffix_Miss, Suffix_Junk, Suffix_MaxStr}

\* The blocks with those of the string rules ahead of the straightliner ones.
AllBlocks_string_first(sq, mq, ranking, str, straightliner) ==
    [i \in 1..Len(sq) |-> generate_sq_spss_syntax(sq[i])]
    \o [i \in 1..Len(mq) |-> generate_mq_spss_syntax(mq[i])]
    \o [i \in 1..Len(ranking) |-> generate_ranking_spss_syntax(ranking[i])]
    \o [i \in 1..Len(str) |-> generate_string_spss_syntax(str[i])]
    \o [i \in 1..Len(straightliner) |-> generate_straightliner_spss_syntax(straightliner[i].variables)]

\* The blocks of all stored rules, in the order generate_master_spss_syntax makes them.
AllBlocks(sq, mq, ranking, str, straightliner) ==
    [i \in 1..Len(sq) |-> generate_sq_spss_syntax(sq[i])]
    \o [i \in 1..Len(mq) |-> generate_mq_spss_syntax(mq[i])]
    \o [i \in 1..Len(ranking) |-> generate_ranking_spss_syntax(ranking[i])]
    \o [i \in 1..Len(straightliner) |-> generate_straightliner_spss_syntax(straightliner[i].variables)]
    \o [i \in 1..Len(str) |-> generate_string_spss_syntax(str[i])]

\* all_flag_cols of generate_master_spss_syntax.
AllFlagCols(sq, mq, ranking, str, straightliner) ==
    LET blocks == AllBlocks(sq, mq, ranking, str, straightliner)
    IN  Flatten([i \in 1..Len(blocks) |-> blocks[i].flags])

\* "0. INITIALIZE FLAGS": NUMERIC and RECODE ... (ELSE=0) of the flags.
initialize_flags(unique_flag_names) ==
    LET init_flags_0 == SelectSeq(unique_flag_names,
                            LAMBDA f : StartsWith(f, FLAG_PREFIX) /\ ~EndsWith(f, Suffix_Count)
                                       /\ ~IsStringFlag(f))
        intermediate_flags == SelectSeq(unique_flag_names, LAMBDA f : StartsWith(f, Flag_))
        string_flags == SelectSeq(unique_flag_names, IsStringFlag)
        all_numeric_flags == SortedUnique(init_flags_0 \o intermediate_flags \o string_flags)
    IN  IF all_numeric_flags # <<>>
        THEN << Numeric(all_numeric_flags) >>
             \o (IF init_flags_0 # <<>> THEN << Recode0(init_flags_0) >> ELSE <<>>)
             \o (IF intermediate_flags # <<>> THEN << Recode0(intermediate_flags) >> ELSE <<>>)
             \o (IF string_flags # <<>> THEN << Recode0(string_flags) >> ELSE <<>>)
        ELSE <<>>

\* The VALUE LABELS statement of one flag, or none.
value_label(f) ==
    IF StartsWith(f, FLAG_PREFIX) /\ \E x \in DataCheckSuffixes : EndsWith(f, x)
    THEN << ValueLabels(f, "data check") >>
    ELSE IF StartsWith(f, FLAG_PREFIX) /\ ~EndsWith(f, Suffix_Count)
    THEN << ValueLabels(f, "EoO/EoC") >>
    ELSE IF StartsWith(f, Flag_)
    THEN << ValueLabels(f, "filter") >>
    ELSE <<>>

\* "2. VALUE LABELS & VARIABLE INITIALIZATION"
value_labels(unique_flag_names) ==
    Flatten([i \in 1..Len(unique_flag_names) |-> value_label(unique_flag_names[i])])

\* The temporary binary flags, their sum Master_Reject_Count and the report.
reject_count_of(error_flags_to_count, temps) ==
    << Line("Temporary Binary Flags for Counting"),
       Numeric(temps) >>
    \o Flatten([i \in 1..Len(error_flags_to_count) |->
                  << IfStmt(Cmp(Var(error_flags_to_count[i]), ">", NumLit(0)), temps[i], 1),
                     ElseStmt(temps[i], 0) >>])
    \o << Execute,
          Compute(Name_Master_Reject_Count, "SUM+", temps),
          VariableLabels(Name_Master_Reject_Count),
          Execute,
          DeletePrefix(Prefix_T_),
          Execute,
          Line("4. VALIDATION REPORT (Frequencies)"),
          Frequencies(<<Name_Master_Reject_Count>> \o error_flags_to_count) >>

\* error_flags_to_count of "3. MASTER REJECT COUNT COMPUTATION"
error_flags_to_count_of(unique_flag_names) ==
    SelectSeq(SelectSeq(unique_flag_names, LAMBDA f : StartsWith(f, FLAG_PREFIX) \/ StartsWith(f, Flag_)),
              LAMBDA f : StartsWith(f, FLAG_PREFIX) /\ ~EndsWith(f, Suffix_Count))

\* T_<flag> of every counted flag.
temp_names(flags) == [i \in 1..Len(flags) |-> Prefix_T_ \o flags[i]]

\* "3. MASTER REJECT COUNT COMPUTATION"
master_reject_count(error_flags_to_count) ==
    IF error_flags_to_count # <<>>
    THEN reject_count_of(error_flags_to_count, temp_names(error_flags_to_count))
    ELSE <<>>

\* sps_content, from the blocks of the rules and the sorted flag names.
sps_content(blocks, unique_flag_names) ==
    << Line("*===*"),
       Line("PYTHON-GENERATED DATA VALIDATION SCRIPT (KNOWLEDGEEXCEL FORMAT)"),
       Line("*===*"),
       Line("DATASET ACTIVATE ALL."),
       Line("0. INITIALIZE FLAGS") >>
    \o initialize_flags(unique_flag_names)
    \o << Execute,
          Line("1. DETAILED VALIDATION LOGIC") >>
    \o Flatten([i \in 1..Len(blocks) |-> blocks[i].syntax])
    \o << Line("2. VALUE LABELS & VARIABLE INITIALIZATION") >>
    \o value_labels(unique_flag_names)
    \o << Execute,
          Line("3. MASTER REJECT COUNT COMPUTATION") >>
    \o master_reject_count(error_flags_to_count_of(unique_flag_names))

generate_master_spss_syntax(sq, mq, ranking, str, straightliner) ==
    sps_content(AllBlocks(sq, mq, ranking, str, straightliner),
                SortedUnique(AllFlagCols(sq, mq, ranking, str, straightliner)))

----------------------------------------------------------------------------
(* 27app.py: the logic helpers and the generators *)

is_string(col) == col \in DOMAIN var_types /\ var_types[col] = "String"

get_missing_logic(col) ==
    IF is_string(col) THEN Or(Cmp(Var(col), "=", StrLit(<<>>)), Miss(col)) ELSE Miss(col)

\* get_answered_logic with the two tests joined by "or".
get_answered_logic_either(col) ==
    IF is_string(col) THEN Or(Cmp(Var(col), "<>", StrLit(<<>>)), Not(Miss(col))) ELSE Not(Miss(col))

get_answered_logic(col) ==
    IF is_string(col) THEN And(Cmp(Var(col), "<>", StrLit(<<>>)), Not(Miss(col))) ELSE Not(Miss(col))

\* rule.get('trigger_col') and rule['trigger_col'] != "-- Select Variable --"
HasTrigger(rule) == rule.trigger_col # NoName /\ rule.trigger_col # SELECT_VARIABLE

\* t_logic of generate_sq_spss_syntax and generate_string_spss_syntax.
TriggerLogic(t_col, t_val) ==
    IF is_string(t_col) THEN Cmp(Var(t_col), "=", StrLit(t_val)) ELSE Cmp(Var(t_col), "=", RawLit(t_val))

\* generate_sq_spss_syntax of 27app.py with flag names made unique by a count of
\* the generations so far: the first script has the plain names.
generate_sq_spss_syntax_app_counted(rule) ==
    LET col == rule.variable
        nth == IF script = <<>> THEN <<>> ELSE <<"_", "2">>
        flag == FLAG_PREFIX \o col \o Suffix_Rng \o nth
    IN  << Comment("SQ Check", <<col>>, <<>>),
           IF ~is_string(col)
           THEN IfStmt(Or(get_missing_logic(col), Not(InRange(col, rule.min_val, rule.max_val))), flag, 1)
           ELSE IfStmt(get_missing_logic(col), flag, 1) >>
        \o (IF HasTrigger(rule)
            THEN << IfStmt(And(TriggerLogic(rule.trigger_col, rule.trigger_val), get_missing_logic(col)),
                           FLAG_PREFIX \o col \o Suffix_Skip \o nth, 1) >>
            ELSE <<>>)
        \o << Execute >>

generate_sq_spss_syntax_app(rule) ==
    LET col == rule.variable
        flag == FLAG_PREFIX \o col \o Suffix_Rng
    IN  << Comment("SQ Check", <<col>>, <<>>),
           IF ~is_string(col)
           THEN IfStmt(Or(get_missing_logic(col), Not(InRange(col, rule.min_val, rule.max_val))), flag, 1)
           ELSE IfStmt(get_missing_logic(col), flag, 1) >>
        \o (IF HasTrigger(rule)
            THEN << IfStmt(And(TriggerLogic(rule.trigger_col, rule.trigger_val), get_missing_logic(col)),
                           FLAG_PREFIX \o col \o Suffix_Skip, 1) >>
            ELSE <<>>)
        \o << Execute >>

generate_mq_spss_syntax_app(rule) ==
    LET base == rule.group_name
    IN  << Comment("MQ Check for", <<base>>, <<>>),
           Compute(base \o Suffix_Sum, "SUM", rule.variables),
           IfStmt(And(Cmp(Var(base \o Suffix_Sum), "<", NumLit(rule.min_count)),
                      get_answered_logic(rule.variables[1])),
                  FLAG_PREFIX \o base \o Suffix_Min, 1),
           Execute >>

generate_string_spss_syntax_app(rule) ==
    LET col == rule.variable
    IN  << Comment("OE Check", <<col>>, <<>>),
           IfStmt(get_missing_logic(col), FLAG_PREFIX \o col \o Suffix_Str, 1) >>
        \o (IF HasTrigger(rule)
            THEN << IfStmt(And(TriggerLogic(rule.trigger_col, rule.trigger_val), get_missing_logic(col)),
                           FLAG_PREFIX \o col \o Suffix_Skip, 1) >>
            ELSE <<>>)
        \o << Execute >>

generate_straightliner_spss_syntax_app(rule) ==
    << Comment("Straightliner", <<rule.group_name>>, <<>>),
       IfStmt(And(Cmp(FnOf("MIN", rule.variables), "=", FnOf("MAX", rule.variables)), get_answered_logic(rule.variables[1])),
              FLAG_PREFIX \o rule.group_name \o Suffix_Str, 1),
       Execute >>

\* The 'Generate Final SPSS Syntax' button of tab_final.
final_syntax_app(sq, mq, str, straightliner) ==
    << Line("* GENERATED VALIDATION SYNTAX"), Line("SET DECIMAL=DOT.") >>
    \o Flatten([i \in 1..Len(sq) |-> generate_sq_spss_syntax_app(sq[i])])
    \o Flatten([i \in 1..Len(mq) |-> generate_mq_spss_syntax_app(mq[i])])
    \o Flatten([i \in 1..Len(str) |-> generate_string_spss_syntax_app(str[i])])
    \o Flatten([i \in 1..Len(straightliner) |-> generate_straightliner_spss_syntax_app(straightliner[i])])

----------------------------------------------------------------------------
(* The meaning of the statements on one respondent.  Each emitted line is   *)
(* read as the command it spells; st maps the names of the working file to  *)
(* the respondent's values.  An invalid command changes nothing.  The       *)
(* script writes ELSE after a one-line IF, outside any DO IF - END IF: the   *)
(* processor either takes it as the else of that IF or rejects the line.     *)

Assign(st, name, v) == (name :> v) @@ st

\* The variable exists afterwards: a new numeric variable is system-missing.
Declare(st, name) == IF name \in DOMAIN st THEN st ELSE Assign(st, name, SysMis)

RECURSIVE DeclareAll(_, _)
DeclareAll(st, names) ==
    IF names = <<>> THEN st ELSE DeclareAll(Declare(st, Head(names)), Tail(names))

RECURSIVE AssignAll(_, _, _)
AssignAll(st, names, v) ==
    IF names = <<>> THEN st ELSE AssignAll(Assign(st, Head(names), v), Tail(names), v)

Remove(st, S) == [n \in DOMAIN st \ S |-> st[n]]

\* The index of the LOOP line an END LOOP at pc closes.
LoopStart(lines, pc) == CHOOSE j \in 1..(pc - 1) : lines[j].s = "loop" /\ \A i \in (j + 1)..(pc - 1) : lines[i].s # "loop"

\* The index of the END LOOP line of the LOOP at pc.
LoopEnd(lines, pc) == CHOOSE j \in (pc + 1)..Len(lines) : lines[j].s = "endloop" /\ \A i \in (pc + 1)..(j - 1) : lines[i].s # "endloop"

\* The state of a run: the working file, the next line and the outcome of the latest IF.
Machine(st, pc, last) == [st |-> st, pc |-> pc, last |-> last]

\* One line runs; else_accepted tells how the processor treats a lone ELSE.
Step(lines, m, else_accepted) ==
    IF m.pc > Len(lines) THEN m
    ELSE LET x == lines[m.pc]
             st == m.st
             next == m.pc + 1
         IN  CASE x.s = "if" ->
                    LET r == Eval(st, x.cond)
                    IN  Machine(IF r = "T" THEN Assign(st, x.tgt, NumV(x.val))
                                ELSE IF r = "E" THEN st ELSE Declare(st, x.tgt),
                                next, r)
               [] x.s = "else" ->
                    Machine(IF else_accepted /\ m.last \in {"F", "M"}
                            THEN Assign(st, x.tgt, NumV(x.val)) ELSE st,
                            next, m.last)
               [] x.s = "compute" ->
                    LET v == Aggregate(st, x.fn, x.args)
                    IN  Machine(IF v.k = "err" THEN st ELSE Assign(st, x.tgt, v), next, m.last)
               [] x.s = "const" -> Machine(Assign(st, x.tgt, NumV(x.val)), next, m.last)
               [] x.s = "numeric" -> Machine(DeclareAll(st, x.names), next, m.last)
               [] x.s = "recode0" ->
                    Machine(IF \A i \in 1..Len(x.names) : x.names[i] \in DOMAIN st
                            THEN AssignAll(st, x.names, NumV(0)) ELSE st, next, m.last)
               [] x.s = "delete" -> Machine(Remove(st, Elems(x.names)), next, m.last)
               [] x.s = "deleteprefix" ->
                    Machine(Remove(st, {n \in DOMAIN st : StartsWith(n, x.prefix)}), next, m.last)
               [] x.s = "loop" ->
                    IF x.lo <= x.hi
                    THEN Machine(Assign(st, x.v, NumV(x.lo)), next, m.last)
                    ELSE Machine(st, LoopEnd(lines, m.pc) + 1, m.last)
               [] x.s = "endloop" ->
                    LET j == LoopStart(lines, m.pc)
                        l == lines[j]
                    IN  IF st[l.v].n < l.hi
                        THEN Machine(Assign(st, l.v, NumV(st[l.v].n + 1)), j + 1, m.last)
                        ELSE Machine(st, next, m.last)
               [] x.s = "count" ->
                    LET k == Lookup(st, x.v)
                        hits == {i \in 1..Len(x.names) :
                                    LET v == Lookup(st, x.names[i]) IN v.k = "num" /\ v.n = k.n}
                    IN  Machine(IF k.k # "num" \/ \E i \in 1..Len(x.names) : ~IsNumeric(Lookup(st, x.names[i]))
                                THEN st ELSE Assign(st, x.tgt, NumV(Cardinality(hits))), next, m.last)
               [] OTHER -> Machine(st, next, m.last)

\* n lines run, one after the other; the run is over when the last line has run.
RECURSIVE Steps(_, _, _, _)
Steps(lines, m, n, else_accepted) ==
    IF n = 0 THEN m
    ELSE IF n = 1 THEN Step(lines, m, else_accepted)
    ELSE LET half == Steps(lines, m, n \div 2, else_accepted)
         IN  IF half.pc > Len(lines) THEN half
             ELSE Steps(lines, half, n - (n \div 2), else_accepted)

\* No run takes more steps: every line once for each turn of each loop.
Fuel(lines) ==
    LET loops == SelectSeq(lines, LAMBDA x : x.s = "loop" /\ x.lo <= x.hi)
    IN  Len(lines) * (1 + SumSeq([i \in 1..Len(loops) |-> loops[i].hi - loops[i].lo + 1]))

\* The working file after the whole script has run on a respondent.
Exec(lines, respondent, else_accepted) ==
    Steps(lines, Machine(respondent, 1, "F"), Fuel(lines), else_accepted).st

\* The value a flag ends with is n (a flag the script never made has no value).
FlagIs(st, name, n) == name \in DOMAIN st /\ st[name].k = "num" /\ st[name].n = n

\* The variables the conditions and computations of the lines read.
TestedVars(lines) ==
    UNION {LET x == lines[i]
           IN  CASE x.s = "if" -> CondVars(x.cond)
                 [] x.s = "compute" -> Elems(x.args)
                 [] x.s = "count" -> Elems(x.names) \cup {x.v}
                 [] OTHER -> {} : i \in 1..Len(lines)}

\* The variables the lines create or assign.
DefinedVars(lines) ==
    UNION {LET x == lines[i]
           IN  CASE x.s \in {"if", "else", "compute", "const", "count"} -> {x.tgt}
                 [] x.s \in {"numeric", "recode0"} -> Elems(x.names)
                 [] x.s = "loop" -> {x.v}
                 [] OTHER -> {} : i \in 1..Len(lines)}

----------------------------------------------------------------------------
(* Loading a data file *)

SYSTEM_VARS ==
    { <<"s","y","s","_","r","e","s","p","n","u","m">>, <<"s","t","a","t","u","s">>,
      <<"d","u","r","a","t","i","o","n">>, <<"s","t","a","r","t","t","i","m","e">>,
      <<"e","n","d","t","i","m","e">>, <<"u","u","i","d">>, <<"r","e","c","o","r","d","i","d">>,
      <<"r","e","s","p","i","d">>, <<"i","n","d","e","x">>, <<"i","d">> }

\* str.lower for one character.
LowerChar(c) ==
    CASE c = "A" -> "a" [] c = "C" -> "c" [] c = "D" -> "d" [] c = "E" -> "e" [] c = "F" -> "f"
      [] c = "I" -> "i" [] c = "J" -> "j" [] c = "M" -> "m" [] c = "N" -> "n" [] c = "O" -> "o"
      [] c = "Q" -> "q" [] c = "R" -> "r" [] c = "S" -> "s" [] c = "T" -> "t" [] c = "V" -> "v"
      [] OTHER -> c

Lower(s) == [i \in 1..Len(s) |-> LowerChar(s[i])]

\* An uploaded data file: its column headers in file order and the columns that
\* hold text (dtype object).
DataFile(cols, text) == [cols |-> cols, text |-> text]

\* The columns whose name, as written, is no system variable.
valid_cols_as_written(file) == SelectSeq(file.cols, LAMBDA c : c \notin SYSTEM_VARS)

\* all_cols after load_data_file of 27app.py: the system variables are dropped.
valid_cols(file) == SelectSeq(file.cols, LAMBDA c : Lower(c) \notin SYSTEM_VARS)

\* var_types after load_data_file of 27app.py.
detect_types(file) ==
    [c \in Elems(valid_cols(file)) |-> IF c \in file.text THEN "String" ELSE "Numeric"]

\* all_cols after the upload in 27novapp.py: list(df_raw.columns).
raw_cols(file) == file.cols

IsAlnum(c) ==
    LET o == Ord(c) IN (48 <= o /\ o <= 57) \/ (65 <= o /\ o <= 90) \/ (97 <= o /\ o <= 122)

\* The match of ^([a-zA-Z0-9]+) at the start of col: its longest alphanumeric prefix.
RECURSIVE AlnumPrefix(_)
AlnumPrefix(col) ==
    IF col # <<>> /\ IsAlnum(Head(col)) THEN <<Head(col)>> \o AlnumPrefix(Tail(col)) ELSE <<>>

\* get_variable_groups of 27app.py: base -> its columns in file order, for the
\* bases with more than one column.
get_variable_groups(cols) ==
    LET grouped == SelectSeq(cols, LAMBDA c : AlnumPrefix(c) # <<>> /\ HasUnderscore(c))
        bases == {AlnumPrefix(grouped[i]) : i \in 1..Len(grouped)}
        members(b) == SelectSeq(grouped, LAMBDA c : AlnumPrefix(c) = b)
    IN  [b \in {x \in bases : Len(members(x)) > 1} |-> members(b)]

----------------------------------------------------------------------------
(* The data files and respondents of the check *)

Q0 == <<"Q", "0">>
Q1_1 == <<"Q", "1", "_", "1">>
Q1_2 == <<"Q", "1", "_", "2">>
Q1_3 == <<"Q", "1", "_", "3">>
Q5 == <<"Q", "5">>
Q9 == <<"Q", "9">>
ID == <<"I", "D">>

\* The largest numeric answer and the longest text answer of a respondent.
MaxVal == 6
MaxStrLen == 2

\* A survey file, and the same headers where Q5 came back as text.
SurveyFile == DataFile(<<ID, Q0, Q1_1, Q1_2, Q1_3, Q5, Q9>>, {Q9})
RetypedFile == DataFile(<<ID, Q0, Q1_1, Q1_2, Q1_3, Q5, Q9>>, {Q5, Q9})
Files == {SurveyFile, RetypedFile}

Q1 == <<"Q", "1">>

\* A shorter file: a text column Q1 beside the grid Q1_1, Q1_2; no Q1_3, Q5 or Q9.
ShortFile == DataFile(<<ID, Q0, Q1, Q1_1, Q1_2>>, {Q1})
AllFiles == Files \cup {ShortFile}

RECURSIVE TextsUpTo(_)
TextsUpTo(n) ==
    IF n = 0 THEN {<<>>}
    ELSE LET shorter == TextsUpTo(n - 1)
         IN  shorter \cup {Append(t, c) : t \in {x \in shorter : Len(x) = n - 1}, c \in {"a", " "}}

TextValues == {NulStr} \cup {StrV(t) : t \in TextsUpTo(MaxStrLen)}
NumValues == {SysMis} \cup {NumV(n) : n \in 0..MaxVal}
IndicatorValues == {SysMis, NumV(0), NumV(1)}
TriggerValues == {SysMis, NumV(1), NumV(2)}

\* The values a respondent can hold in column c of a file.
ValuesOf(file, c) ==
    IF c \in file.text THEN TextValues
    ELSE IF c = Q0 THEN TriggerValues
    ELSE IF c \in {Q1_1, Q1_2, Q1_3} THEN IndicatorValues
    ELSE NumValues

\* A respondent who left column c unanswered.
Unanswered(file, c) == IF c \in file.text THEN NulStr ELSE SysMis

\* The respondents over the listed columns that differ in the columns of interest only.
RECURSIVE RespondentsOver(_, _, _)
RespondentsOver(file, cols, interest) ==
    IF cols = <<>> THEN {<<>>}
    ELSE LET c == Head(cols)
             vals == IF c \in interest THEN ValuesOf(file, c) ELSE {Unanswered(file, c)}
         IN  {(c :> v) @@ r : v \in vals, r \in RespondentsOver(file, Tail(cols), interest)}

Respondents(file, interest) == RespondentsOver(file, file.cols, interest)

----------------------------------------------------------------------------
(* Saving a rule: the dictionaries the configuration forms store *)

\* The rule dictionary of configure_sq_rules (27novapp.py), from the widget values.
new_sq_rule(col, min_val, max_val, required_stubs, other_var, other_stub_val, run_skip, skip_trigger_col, skip_trigger_val, run_piping, p_source, p_stub) ==
    LET pipe_source_col == IF run_piping THEN p_source ELSE SELECT_VARIABLE
        pipe_stub_val == IF run_piping THEN p_stub ELSE 1
    IN  [variable |-> col, min_val |-> min_val, max_val |-> max_val,
         required_stubs |-> required_stubs, other_var |-> other_var, other_stub_val |-> other_stub_val,
         run_skip |-> run_skip /\ skip_trigger_col # SELECT_VARIABLE,
         trigger_col |-> skip_trigger_col, trigger_val |-> skip_trigger_val,
         run_piping_check |-> run_piping /\ pipe_source_col # SELECT_VARIABLE
                              /\ skip_trigger_col # SELECT_VARIABLE,
         piping_source_col |-> pipe_source_col, piping_stub_val |-> pipe_stub_val]

\* The rule dictionary of configure_mq_rules (27novapp.py).
new_mq_rule(mq_cols, min_count, max_count, count_method, exclusive_col, other_checkbox_col, other_var, other_stub_val, run_skip, t_col, t_val) ==
    LET skip_trigger_col == IF run_skip THEN t_col ELSE SELECT_VARIABLE
        skip_trigger_val == IF run_skip THEN t_val ELSE <<"1">>
    IN  [variables |-> mq_cols, min_count |-> min_count,
         max_count |-> IF max_count > 0 THEN max_count ELSE NoNum,
         exclusive_col |-> exclusive_col, count_method |-> count_method,
         other_var |-> IF other_var # NONE_OPTION /\ other_checkbox_col # NONE_OPTION
                       THEN other_var ELSE NoName,
         other_checkbox_col |-> IF other_checkbox_col # NONE_OPTION THEN other_checkbox_col ELSE NoName,
         other_stub_val |-> other_stub_val,
         run_skip |-> run_skip /\ skip_trigger_col # SELECT_VARIABLE,
         trigger_col |-> skip_trigger_col, trigger_val |-> skip_trigger_val]

\* An open-end rule whose run_skip is the checkbox as ticked.
new_string_rule_as_ticked(col, min_len, run_skip, t_col, t_val) ==
    [variable |-> col, min_length |-> min_len, run_skip |-> run_skip,
     trigger_col |-> IF run_skip THEN t_col ELSE SELECT_VARIABLE,
     trigger_val |-> IF run_skip THEN t_val ELSE <<>>]

\* The rule dictionary of configure_string_rules (27novapp.py).
new_string_rule(col, min_len, run_skip, t_col, t_val) ==
    LET trigger_col == IF run_skip THEN t_col ELSE SELECT_VARIABLE
        trigger_val == IF run_skip THEN t_val ELSE <<>>
    IN  [variable |-> col, min_length |-> min_len,
         run_skip |-> run_skip /\ trigger_col # SELECT_VARIABLE,
         trigger_col |-> trigger_col, trigger_val |-> trigger_val]

\* The rule dictionary of configure_straightliner_rules (27novapp.py).
new_straightliner_rule(straightliner_cols) ==
    [variables |-> straightliner_cols, group_name |-> SplitFirst(straightliner_cols[1])]

\* The dictionaries the tabs of 27app.py append.
SELECT_GROUP == <<"-", "-", " ", "S", "e", "l", "e", "c", "t", " ", "a", " ", "G", "r", "o", "u", "p", " ", "-", "-">>

app_sq_rule(c, min_v, max_v, trig, trig_v) ==
    [variable |-> c, min_val |-> min_v, max_val |-> max_v, trigger_col |-> trig, trigger_val |-> trig_v]

app_mq_rule(sel_group, mq_vars, min_c) ==
    [variables |-> mq_vars, min_count |-> min_c,
     group_name |-> IF sel_group # SELECT_GROUP THEN sel_group ELSE mq_vars[1]]

app_string_rule(c, trig, trig_v) == [variable |-> c, trigger_col |-> trig, trigger_val |-> trig_v]

app_straightliner_rule(groups, sl_group) == [variables |-> groups[sl_group], group_name |-> sl_group]

\* The five rule lists of the session.
RuleLists(sq, mq, str, straightliner) == [sq |-> sq, mq |-> mq, str |-> str, straightliner |-> straightliner]

----------------------------------------------------------------------------
(* The sessions of the check: one saved rule, one respondent *)

ONE == <<"1">>

\* Single-select rules saved from the form of 27novapp.py.
NovSqRules ==
    {new_sq_rule(col, min_val, 2, <<>>, SELECT_VARIABLE, 2, run_skip, t_col, ONE, run_piping, p_source, 1) :
        col \in {Q5, Q1_1, Q9}, min_val \in {1, 2}, run_skip \in BOOLEAN, t_col \in {SELECT_VARIABLE, Q0},
        run_piping \in BOOLEAN, p_source \in {SELECT_VARIABLE, Q0}}
    \cup {new_sq_rule(Q5, 1, 2, stubs, other_var, 2, FALSE, SELECT_VARIABLE, ONE, FALSE, SELECT_VARIABLE, 1) :
            stubs \in {<<>>, <<1>>}, other_var \in {SELECT_VARIABLE, Q9}}

\* Multi-select rules saved from the form of 27novapp.py.
NovMqRules ==
    {new_mq_rule(<<Q1_1, Q1_2, Q1_3>>, min_count, max_count, method, NONE_OPTION, NONE_OPTION, NONE_OPTION, 1, run_skip, t_col, ONE) :
        min_count \in {1, 2}, max_count \in {0, 2}, method \in {"SUM", "COUNT"},
        run_skip \in BOOLEAN, t_col \in {SELECT_VARIABLE, Q0}}
    \cup {new_mq_rule(<<Q1_1, Q1_2, Q1_3>>, 1, 0, "SUM", exclusive, chk, other_var, 1, FALSE, SELECT_VARIABLE, ONE) :
            exclusive \in {NONE_OPTION, Q1_3}, chk \in {NONE_OPTION, Q1_2}, other_var \in {NONE_OPTION, Q9}}

\* Open-end rules saved from the form of 27novapp.py.
NovStringRules ==
    {new_string_rule(col, min_len, run_skip, t_col, ONE) :
        col \in {Q9, Q5}, min_len \in {1, 2}, run_skip \in BOOLEAN, t_col \in {SELECT_VARIABLE, Q0}}

NovStraightlinerRules == {new_straightliner_rule(cols) : cols \in {<<Q1_1, Q1_2, Q1_3>>, <<Q1_1, Q1_2>>}}

NovSessions ==
    {RuleLists(<<r>>, <<>>, <<>>, <<>>) : r \in NovSqRules}
    \cup {RuleLists(<<>>, <<r>>, <<>>, <<>>) : r \in NovMqRules}
    \cup {RuleLists(<<>>, <<>>, <<r>>, <<>>) : r \in NovStringRules}
    \cup {RuleLists(<<>>, <<>>, <<>>, <<r>>) : r \in NovStraightlinerRules}

\* The rules the tabs of 27app.py can save for a loaded file.
AppSessions(file) ==
    LET cols == valid_cols(file)
        types == detect_types(file)
        groups == get_variable_groups(cols)
        num_vars == {c \in Elems(cols) : types[c] # "String"} \ {ID, Q0}
        str_vars == {c \in Elems(cols) : types[c] = "String"}
        triggers == {SELECT_VARIABLE, Q0, Q9}
    IN  {RuleLists(<<app_sq_rule(c, min_v, 5, trig, ONE)>>, <<>>, <<>>, <<>>) :
            c \in num_vars, min_v \in {1, 2}, trig \in triggers}
        \cup {RuleLists(<<>>, <<app_mq_rule(g, groups[g], min_c)>>, <<>>, <<>>) :
                g \in DOMAIN groups, min_c \in {1, 2}}
        \cup {RuleLists(<<>>, <<app_mq_rule(SELECT_GROUP, <<Q1_1, Q1_2, Q1_3>>, min_c)>>, <<>>, <<>>) :
                min_c \in {1, 2}}
        \cup {RuleLists(<<>>, <<>>, <<app_string_rule(c, trig, ONE)>>, <<>>) :
                c \in str_vars, trig \in triggers}
        \cup {RuleLists(<<>>, <<>>, <<>>, <<app_straightliner_rule(groups, g)>>) : g \in DOMAIN groups}

\* The names a rule dictionary holds.
RuleNames(r) ==
    LET one(f) == IF f \in DOMAIN r THEN {r[f]} ELSE {}
    IN  one("variable") \cup one("other_var") \cup one("trigger_col") \cup one("piping_source_col")
        \cup one("exclusive_col") \cup one("other_checkbox_col")
        \cup (IF "variables" \in DOMAIN r THEN Elems(r.variables) ELSE {})

\* The columns the rules of the session name.
SessionColumns ==
    UNION {UNION {RuleNames(rs[i]) : i \in 1..Len(rs)} :
              rs \in {sq_rules, mq_rules, string_rules, straightliner_rules}}

Apps == {"app", "nov"}

InitExec ==
    /\ app \in Apps
    /\ uploaded_file = SurveyFile
    /\ all_cols = IF app = "app" THEN valid_cols(SurveyFile) ELSE raw_cols(SurveyFile)
    /\ var_types = IF app = "app" THEN detect_types(SurveyFile) ELSE <<>>
    /\ \E s \in (IF app = "app" THEN AppSessions(SurveyFile) ELSE NovSessions) :
         /\ sq_rules = s.sq
         /\ mq_rules = s.mq
         /\ string_rules = s.str
         /\ straightliner_rules = s.straightliner
    /\ ranking_rules = <<>>
    /\ row = <<>>
    /\ script = <<>>
    /\ flag_cols = <<>>
    /\ env = <<>>
    /\ phase = "rules"
    /\ sq_batch_vars = <<>>
    /\ tmp_files = {}
    /\ load_error = "none"

\* A data file is uploaded: the columns are read again, the saved rules stay.
Upload ==
    /\ \E file \in AllFiles :
         /\ uploaded_file' = file
         /\ all_cols' = IF app = "app" THEN valid_cols(file) ELSE raw_cols(file)
         /\ var_types' = IF app = "app" THEN detect_types(file) ELSE <<>>
    /\ row' = <<>>
    /\ env' = <<>>
    /\ phase' = "rules"
    /\ load_error' = "none"
    /\ UNCHANGED <<app, sq_rules, mq_rules, ranking_rules, string_rules, straightliner_rules,
                   script, flag_cols, sq_batch_vars, tmp_files>>

\* total_rules of the main flow (the ranking rules are counted with the others).
TotalRules(sq, mq, str, straightliner) == Len(sq) + Len(mq) + Len(str) + Len(straightliner)

\* The script is generated from the saved rules: by the button of 27app.py, and by
\* 27novapp.py once a rule is saved (if total_rules > 0).
Generate ==
    /\ app = "nov" => TotalRules(sq_rules, mq_rules, string_rules, straightliner_rules) + Len(ranking_rules) > 0
    /\ script' = IF app = "app"
                 THEN final_syntax_app(sq_rules, mq_rules, string_rules, straightliner_rules)
                 ELSE generate_master_spss_syntax(sq_rules, mq_rules, ranking_rules, string_rules,
                                                  straightliner_rules)
    /\ flag_cols' = IF app = "app" THEN <<>>
                    ELSE AllFlagCols(sq_rules, mq_rules, ranking_rules, string_rules, straightliner_rules)
    /\ row' = <<>>
    /\ env' = <<>>
    /\ phase' = "generated"
    /\ UNCHANGED <<app, uploaded_file, all_cols, var_types, sq_rules, mq_rules, ranking_rules,
                   string_rules, straightliner_rules, sq_batch_vars, tmp_files, load_error>>

\* The downloaded script runs on a respondent of the data file.
Run ==
    /\ phase = "generated"
    /\ \E respondent \in Respondents(uploaded_file, SessionColumns), else_accepted \in BOOLEAN :
         /\ row' = respondent
         /\ env' = Exec(script, respondent, else_accepted)
    /\ phase' = "ran"
    /\ UNCHANGED <<app, uploaded_file, all_cols, var_types, sq_rules, mq_rules, ranking_rules,
                   string_rules, straightliner_rules, script, flag_cols, sq_batch_vars, tmp_files,
                   load_error>>

NextExec == Upload \/ Generate \/ Run

SpecExec == InitExec /\ [][NextExec]_vars

----------------------------------------------------------------------------
(* Saving rules one by one: the configuration forms as operations *)

\* The most rules a session of the check holds.
MaxRules == 2

\* A form that is shown for any selection, the empty one included.
mq_form_shown_always(mq_cols) == TRUE

\* if mq_cols: the form of a multi-select group is shown (and can be saved).
mq_form_shown(mq_cols) == mq_cols # <<>>

\* if mq_vars: the tab of 27app.py offers the button for a selection of variables.
mq_vars_chosen(mq_vars) == mq_vars # <<>>

\* The straightliner form is shown for a selection and saves a grid of two or more.
straightliner_saved(straightliner_cols) == straightliner_cols # <<>> /\ Len(straightliner_cols) > 1

\* The sequences over the columns of cols that are still columns of the session.
Selectable(S) == {x \in S : \A i \in 1..Len(x) : x[i] \in Elems(all_cols)}

\* [r for r in rules if r['variable'] != col]
OtherThan(rules, col) == SelectSeq(rules, LAMBDA r : r.variable # col)

\* No rule is saved yet: a data file was uploaded and its columns were read.
InitRules ==
    /\ app \in Apps
    /\ uploaded_file \in AllFiles
    /\ all_cols = IF app = "app" THEN valid_cols(uploaded_file) ELSE raw_cols(uploaded_file)
    /\ var_types = IF app = "app" THEN detect_types(uploaded_file) ELSE <<>>
    /\ sq_rules = <<>>
    /\ mq_rules = <<>>
    /\ ranking_rules = <<>>
    /\ string_rules = <<>>
    /\ straightliner_rules = <<>>
    /\ row = <<>>
    /\ script = <<>>
    /\ flag_cols = <<>>
    /\ env = <<>>
    /\ phase = "rules"
    /\ sq_batch_vars = <<>>
    /\ tmp_files = {}
    /\ load_error = "none"

\* What every save leaves behind: the page runs again, the script shown before is gone.
AfterSave ==
    /\ script' = <<>>
    /\ flag_cols' = <<>>
    /\ row' = <<>>
    /\ env' = <<>>
    /\ phase' = "rules"
    /\ UNCHANGED <<app, uploaded_file, all_cols, var_types, ranking_rules, sq_batch_vars,
                   tmp_files, load_error>>

\* The single-select form is saved for one selected variable: 27novapp.py replaces
\* the rule of that variable, 27app.py appends.
SaveSq ==
    /\ \/ /\ app = "nov"
          /\ \E col \in Elems(all_cols) \cap {Q5, Q1_1, Q1_2},
                form \in {<<1, 2, "range">>, <<2, 1, "range">>, <<1, 2, "skip">>, <<1, 2, "piping">>} :
               sq_rules' = OtherThan(sq_rules, col)
                           \o << new_sq_rule(col, form[1], form[2], <<>>, SELECT_VARIABLE, 2,
                                             form[3] = "skip",
                                             IF form[3] = "range" THEN SELECT_VARIABLE ELSE Q0, ONE,
                                             form[3] = "piping", Q0, 1) >>
       \/ /\ app = "app"
          /\ \E c \in {x \in Elems(all_cols) : ~is_string(x)} \cap {Q5, Q1_1},
                form \in {<<1, 5, SELECT_VARIABLE>>, <<6, 5, SELECT_VARIABLE>>, <<1, 5, Q0>>} :
               sq_rules' = Append(sq_rules, app_sq_rule(c, form[1], form[2], form[3], ONE))
    /\ TotalRules(sq_rules', mq_rules, string_rules, straightliner_rules) <= MaxRules
    /\ UNCHANGED <<mq_rules, string_rules, straightliner_rules>>
    /\ AfterSave

\* The multi-select form is saved: both programs append when variables are selected.
SaveMq ==
    /\ \/ /\ app = "nov"
          /\ \E mq_cols \in Selectable({<<>>, <<Q1_1, Q1_2>>, <<Q1_1, Q1_2, Q1_3>>}),
                max_count \in {0, 2}, run_skip \in BOOLEAN :
               /\ mq_form_shown(mq_cols)
               /\ mq_rules' = Append(mq_rules,
                                     new_mq_rule(mq_cols, 1, max_count, "SUM", NONE_OPTION, NONE_OPTION,
                                                 NONE_OPTION, 1, run_skip, Q0, ONE))
       \/ /\ app = "app"
          /\ LET groups == get_variable_groups(all_cols)
             IN  \E sel_group \in DOMAIN groups \cup {SELECT_GROUP} :
                   \E mq_vars \in (IF sel_group \in DOMAIN groups THEN {groups[sel_group]}
                                   ELSE Selectable({<<>>, <<Q1_1, Q1_2>>})) :
                     /\ mq_vars_chosen(mq_vars)
                     /\ mq_rules' = Append(mq_rules, app_mq_rule(sel_group, mq_vars, 1))
    /\ TotalRules(sq_rules, mq_rules', string_rules, straightliner_rules) <= MaxRules
    /\ UNCHANGED <<sq_rules, string_rules, straightliner_rules>>
    /\ AfterSave

\* The open-end form is saved for one selected variable: 27novapp.py replaces the
\* rule of that variable, 27app.py appends.
SaveString ==
    /\ \/ /\ app = "nov"
          /\ \E col \in Elems(all_cols) \cap {Q5, Q9}, run_skip \in BOOLEAN :
               string_rules' = OtherThan(string_rules, col)
                               \o << new_string_rule(col, 1, run_skip, Q0, ONE) >>
       \/ /\ app = "app"
          /\ \E c \in {x \in Elems(all_cols) : is_string(x)} \cap {Q1, Q9}, trig \in {SELECT_VARIABLE, Q0} :
               string_rules' = Append(string_rules, app_string_rule(c, trig, ONE))
    /\ TotalRules(sq_rules, mq_rules, string_rules', straightliner_rules) <= MaxRules
    /\ UNCHANGED <<sq_rules, mq_rules, straightliner_rules>>
    /\ AfterSave

\* The rating grid form is saved: 27novapp.py appends a grid of two or more selected
\* variables, 27app.py appends a detected group.
SaveStraightliner ==
    /\ \/ /\ app = "nov"
          /\ \E cols \in Selectable({<<>>, <<Q1_1>>, <<Q1_1, Q1_2>>, <<Q1_1, Q1_2, Q1_3>>}) :
               /\ straightliner_saved(cols)
               /\ straightliner_rules' = Append(straightliner_rules, new_straightliner_rule(cols))
       \/ /\ app = "app"
          /\ LET groups == get_variable_groups(all_cols)
             IN  \E sl_group \in DOMAIN groups :
                   straightliner_rules' = Append(straightliner_rules, app_straightliner_rule(groups, sl_group))
    /\ TotalRules(sq_rules, mq_rules, string_rules, straightliner_rules') <= MaxRules
    /\ UNCHANGED <<sq_rules, mq_rules, string_rules>>
    /\ AfterSave

NextRules == Upload \/ SaveSq \/ SaveMq \/ SaveString \/ SaveStraightliner \/ Generate

SpecRules == InitRules /\ [][NextRules]_vars

----------------------------------------------------------------------------
(* Loading an SPSS file: the temporary copy of the upload *)

\* The most temporary files a session of the check leaves on the disk.
MaxTmp == 3

\* How the SPSS branch can fail once the temporary file exists: the upload cannot
\* be written to it, pyreadstat is not installed, or the file cannot be read.
LoadFailures == {"write_error", "ImportError", "read_error"}

\* What load_data_file reports and whether the temporary file is gone at the exit.
LoadExit(removed, error) == [removed |-> removed, error |-> error]

\* The SPSS branch of load_data_file of 27novapp.py: tmp_path is set after the
\* write; except ImportError raises again, except Exception removes tmp_path.
load_data_file_spss(failure) ==
    LET tmp_path_set == failure # "write_error"
    IN  IF failure = "ImportError" THEN LoadExit(FALSE, "ImportError")
        ELSE LoadExit(tmp_path_set, "Exception")

\* The SPSS branch of load_data_file of 27app.py: os.remove follows the with block,
\* except Exception reports the error and the function returns None.
load_data_file_spss_app(failure) == LoadExit(FALSE, "reported")

\* An .sav or .zsav file is uploaded and load_data_file fails: the session keeps
\* the columns it had.
UploadFails ==
    /\ \E failure \in LoadFailures, tmp \in (1..MaxTmp) \ tmp_files :
         LET exit == IF app = "app" THEN load_data_file_spss_app(failure)
                     ELSE load_data_file_spss(failure)
         IN  /\ tmp_files' = IF exit.removed THEN tmp_files ELSE tmp_files \cup {tmp}
             /\ load_error' = exit.error
    /\ UNCHANGED <<app, uploaded_file, all_cols, var_types, sq_rules, mq_rules, ranking_rules,
                   string_rules, straightliner_rules, script, flag_cols, row, env, phase,
                   sq_batch_vars>>

NextLoad == Upload \/ UploadFails

SpecLoad == InitRules /\ [][NextLoad]_vars

----------------------------------------------------------------------------
(* Editing the rules of 27novapp.py: the single-select batch, deleting, clearing *)

\* The batches of the check: the selections of the single-select multiselect.
Batches == Selectable({<<Q5>>, <<Q1_1>>, <<Q5, Q1_1>>, <<Q1_1, Q5>>, <<Q1_1, Q1_2>>})

\* 'Start/Update SQ Rule Configuration': the selection becomes the pending batch.
SelectSqBatch ==
    /\ app = "nov"
    /\ \E sq_cols \in Batches : sq_batch_vars' = sq_cols
    /\ UNCHANGED <<app, uploaded_file, all_cols, var_types, sq_rules, mq_rules, ranking_rules,
                   string_rules, straightliner_rules, script, flag_cols, row, env, phase,
                   tmp_files, load_error>>

\* Rules that are kept although their variable is in the batch.
keep_all_rules(rules, batch) == rules

\* existing_vars_to_keep: the stored rules whose variable is not in the batch.
existing_vars_to_keep(rules, batch) == SelectSeq(rules, LAMBDA r : r.variable \notin Elems(batch))

\* 'Save ALL Configured SQ Rules': one new rule for each variable of the batch,
\* after the kept ones; the batch is emptied and the page runs again.
SaveSqBatch ==
    /\ app = "nov"
    /\ sq_batch_vars # <<>>
    /\ \E run_skip \in BOOLEAN :
         LET new_sq_rules == [i \in 1..Len(sq_batch_vars) |->
                                 new_sq_rule(sq_batch_vars[i], 1, 2, <<>>, SELECT_VARIABLE, 2, run_skip,
                                             Q0, ONE, FALSE, SELECT_VARIABLE, 1)]
         IN  sq_rules' = existing_vars_to_keep(sq_rules, sq_batch_vars) \o new_sq_rules
    /\ TotalRules(sq_rules', mq_rules, string_rules, straightliner_rules) <= MaxRules
    /\ sq_batch_vars' = <<>>
    /\ script' = <<>>
    /\ flag_cols' = <<>>
    /\ row' = <<>>
    /\ env' = <<>>
    /\ phase' = "rules"
    /\ UNCHANGED <<app, uploaded_file, all_cols, var_types, mq_rules, ranking_rules, string_rules,
                   straightliner_rules, tmp_files, load_error>>

\* The list without the rule at the index that would come after the one asked for.
delete_next(rules, index) == SubSeq(rules, 1, index + 1) \o SubSeq(rules, index + 3, Len(rules))

\* del rules[index], the index counted from 0.
delete_at(rules, index) == SubSeq(rules, 1, index) \o SubSeq(rules, index + 2, Len(rules))

\* The rule lists that show delete buttons.
RuleTypes == {"sq", "mq", "string", "straightliner"}

\* The list of the session that a rule type names.
RulesOf(rule_type) ==
    CASE rule_type = "sq" -> sq_rules
      [] rule_type = "mq" -> mq_rules
      [] rule_type = "ranking" -> ranking_rules
      [] rule_type = "string" -> string_rules
      [] rule_type = "straightliner" -> straightliner_rules

\* delete_rule(rule_type, index); the page runs again.
delete_rule(rule_type, index) ==
    /\ sq_rules' = IF rule_type = "sq" THEN delete_at(sq_rules, index) ELSE sq_rules
    /\ mq_rules' = IF rule_type = "mq" THEN delete_at(mq_rules, index) ELSE mq_rules
    /\ string_rules' = IF rule_type = "string" THEN delete_at(string_rules, index) ELSE string_rules
    /\ straightliner_rules' = IF rule_type = "straightliner"
                              THEN delete_at(straightliner_rules, index)
                              ELSE straightliner_rules
    /\ AfterSave

\* The delete button of a shown rule is pressed.
DeleteRule ==
    /\ app = "nov"
    /\ \E rule_type \in RuleTypes :
         \E index \in 0..(Len(RulesOf(rule_type)) - 1) : delete_rule(rule_type, index)

\* clear_all_rules, the callback of 'Clear All Rules'.
ClearAll ==
    /\ app = "nov"
    /\ sq_rules' = <<>>
    /\ mq_rules' = <<>>
    /\ ranking_rules' = <<>>
    /\ string_rules' = <<>>
    /\ straightliner_rules' = <<>>
    /\ sq_batch_vars' = <<>>
    /\ script' = <<>>
    /\ flag_cols' = <<>>
    /\ row' = <<>>
    /\ env' = <<>>
    /\ phase' = "rules"
    /\ UNCHANGED <<app, uploaded_file, all_cols, var_types, tmp_files, load_error>>

InitEdit == InitRules /\ app = "nov"

NextEdit ==
    SelectSqBatch \/ SaveSqBatch \/ SaveMq \/ SaveString \/ SaveStraightliner \/ DeleteRule \/ ClearAll

SpecEdit == InitEdit /\ [][NextEdit]_vars

----------------------------------------------------------------------------
(* Properties of the predicates, the range rule and the group count rule *)

\* The script on screen was generated from the rules and column types of the state.
Generated == phase \in {"generated", "ran"}

Ran == phase = "ran"

\* A value that counts as missing: a text that is empty (blank) or system-missing,
\* a number that is system-missing.
Unfilled(v) == v.k \in {"sys", "nul"} \/ (v.k = "str" /\ RTrim(v.s) = <<>>)

\* C1: the missing and the answered predicate of 27app.py are exact negations of
\* each other: on every value a column of its type can hold (empty, system-missing
\* and non-empty texts; numbers and the numeric system-missing value) exactly one
\* of the two is true, and the missing one is true exactly on the missing values.
C1_ExactNegation ==
    app = "app" =>
        \A c \in Elems(all_cols) : \A v \in ValuesOf(uploaded_file, c) :
            LET st == (c :> v)
                missing == Eval(st, get_missing_logic(c))
                answered == Eval(st, get_answered_logic(c))
            IN  /\ {missing, answered} = {"T", "F"}
                /\ (missing = "T") <=> Unfilled(v)

\* C1 witness: an open-end rule of 27app.py ran on a respondent whose text is
\* system-missing; the missing predicate held, the answered one did not.
C1_Witness ==
    /\ app = "app" /\ Ran /\ string_rules # <<>>
    /\ LET c == string_rules[1].variable
       IN  /\ is_string(c) /\ row[c] = NulStr
           /\ Eval(row, get_missing_logic(c)) = "T"
           /\ Eval(row, get_answered_logic(c)) = "F"
           /\ FlagIs(env, FLAG_PREFIX \o c \o Suffix_Str, 1)

\* The rules are put on columns of their kind: range rules on numeric columns,
\* open-end rules on text columns.
RulesFitTypes ==
    /\ \A i \in 1..Len(sq_rules) : sq_rules[i].variable \notin uploaded_file.text
    /\ \A i \in 1..Len(string_rules) : string_rules[i].variable \in uploaded_file.text

\* The names a condition compares with the empty text, and the names it tests
\* with miss().
RECURSIVE BlankTests(_)
BlankTests(c) ==
    CASE c.op = "cmp" -> IF c.l.t = "var" /\ c.r.t = "str" /\ c.r.s = <<>> THEN {c.l.name} ELSE {}
      [] c.op = "not" -> BlankTests(c.a)
      [] c.op \in {"and", "or"} -> BlankTests(c.a) \cup BlankTests(c.b)
      [] OTHER -> {}

RECURSIVE MissTests(_)
MissTests(c) ==
    CASE c.op = "miss" -> {c.name}
      [] c.op = "not" -> MissTests(c.a)
      [] c.op \in {"and", "or"} -> MissTests(c.a) \cup MissTests(c.b)
      [] OTHER -> {}

\* C2: every missing/answered test of a generated script is branched on the type
\* of the column: a text column is tested with the comparison to '' together with
\* miss(), a numeric column with miss() alone.
C2_TypeBranched ==
    (Generated /\ RulesFitTypes) =>
        \A i \in 1..Len(script) :
            script[i].s = "if" =>
                LET blank == BlankTests(script[i].cond)
                    miss == MissTests(script[i].cond)
                IN  \A c \in (blank \cup miss) \cap Elems(uploaded_file.cols) :
                        IF c \in uploaded_file.text THEN c \in blank /\ c \in miss
                        ELSE c \in miss /\ c \notin blank

\* The range rule of the session whose skip check generate_skip_spss_syntax wrote.
SkipRule == sq_rules[1]

HasSkipCheck ==
    /\ app = "nov"
    /\ sq_rules # <<>>
    /\ SkipRule.run_skip
    /\ ~SkipRule.run_piping_check

\* C3: the final flag of the skip check of a range rule is 1 exactly when the
\* trigger is met and the target is missing, 2 exactly when the trigger is not met
\* (a missing trigger included) and the target is answered, and 0 otherwise.
C3_SkipFlag ==
    (Ran /\ HasSkipCheck /\ RulesFitTypes) =>
        LET r == SkipRule
            met == row[r.trigger_col] = NumV(ParseDigits(r.trigger_val))
            missing == Unfilled(row[r.variable])
            expected == IF met /\ missing THEN 1 ELSE IF ~met /\ ~missing THEN 2 ELSE 0
        IN  FlagIs(env, FLAG_PREFIX \o TargetClean(r.variable), expected)

\* C4: every saved single-select rule yields the range statement: the flag
\* <prefix><var>_Rng is 1 exactly when a numeric variable is missing or outside
\* [min, max], and exactly when a text variable is missing.
C4_RangeFlag ==
    (Ran /\ sq_rules # <<>>) =>
        LET r == sq_rules[1]
            v == row[r.variable]
            bad == IF r.variable \in uploaded_file.text THEN Unfilled(v)
                   ELSE v.k = "sys" \/ (v.k = "num" /\ (v.n < r.min_val \/ v.n > r.max_val))
        IN  FlagIs(env, FLAG_PREFIX \o r.variable \o Suffix_Rng, 1) <=> bad

\* The single-select rule has its trigger set: the tab of 27app.py stored a
\* trigger column, the form of 27novapp.py enabled the skip or the piping check.
SqTriggerSet ==
    /\ sq_rules # <<>>
    /\ IF app = "app" THEN HasTrigger(sq_rules[1])
       ELSE sq_rules[1].run_skip \/ sq_rules[1].run_piping_check

\* A check of the target against its trigger that sets a flag to val: 1 is the
\* omission check, 2 the commission check.
SkipCheckSetting(val) ==
    LET r == sq_rules[1]
        filter == {r.trigger_col, Flag_ \o TargetClean(r.variable)}
    IN  \E i \in 1..Len(script) :
            /\ script[i].s = "if" /\ script[i].val = val
            /\ r.variable \in CondVars(script[i].cond)
            /\ CondVars(script[i].cond) \cap filter # {}

\* C5: the script of a range rule with a trigger holds the omission check and the
\* commission check of the variable.
C5_BothChecks == (Generated /\ SqTriggerSet) => (SkipCheckSetting(1) /\ SkipCheckSetting(2))

MqRule == mq_rules[1]

MqFirst == MqRule.variables[1]

MqBase == IF app = "app" THEN MqRule.group_name ELSE SplitFirst(MqFirst)

MqSelected == Cardinality({i \in 1..Len(MqRule.variables) : row[MqRule.variables[i]] = NumV(1)})

MqMinFlag == FLAG_PREFIX \o MqBase \o Suffix_Min

MqMaxFlag == FLAG_PREFIX \o MqBase \o Suffix_Max

\* The respondent's file holds every one of the columns.
InData(cols) == \A i \in 1..Len(cols) : cols[i] \in DOMAIN row

\* The rule of the example: three variables of the data file, at least two selections.
MqOfThreeMinTwo ==
    mq_rules # <<>> /\ Len(MqRule.variables) = 3 /\ MqRule.min_count = 2 /\ InData(MqRule.variables)

\* C7 (as stated): a multi-select rule over [A, B, C] with min_count = 2 flags
\* every respondent with 0 or 1 selections and none with 2 or 3.
C7_Original ==
    (Ran /\ MqOfThreeMinTwo) => (FlagIs(env, MqMinFlag, 1) <=> MqSelected < 2)

\* C7: a multi-select rule over [A, B, C] with min_count = 2 flags exactly the
\* respondents who answered the first variable A and selected 0 or 1 items: none
\* with 2 or 3 selections, and none whose A is system-missing.
C7_MinCount ==
    (Ran /\ MqOfThreeMinTwo) =>
        (FlagIs(env, MqMinFlag, 1) <=> (~Unfilled(row[MqFirst]) /\ MqSelected < 2))

\* C7 witness: a respondent with one selection and A answered was flagged.
C7_Witness ==
    /\ Ran /\ MqOfThreeMinTwo
    /\ MqSelected = 1 /\ row[MqFirst] = NumV(0)
    /\ FlagIs(env, MqMinFlag, 1)

\* An IF statement of the script sets the flag.
MqMaxStatement == \E i \in 1..Len(script) : script[i].s = "if" /\ script[i].tgt = MqMaxFlag

C9_TestedAreRuleVars ==
    Generated => TestedVars(script) \subseteq (SessionColumns \cup DefinedVars(script))

\* The open-end rule of the session (27novapp.py) and its two flags.
StringRule == string_rules[1]

JunkFlag == FLAG_PREFIX \o StringRule.variable \o Suffix_Junk

MissFlag == FLAG_PREFIX \o StringRule.variable \o Suffix_Miss

\* C10: the junk flag is set only for an answered text whose length, once the
\* trailing blanks are trimmed, is below min_length (and for every such text); the
\* junk flag and the _Miss flag are never both set for a respondent.
C10_JunkOnlyAnswered ==
    (Ran /\ app = "nov" /\ string_rules # <<>> /\ InData(<<StringRule.variable>>)) =>
        LET v == row[StringRule.variable]
        IN  /\ FlagIs(env, JunkFlag, 1)
                <=> (v.k = "str" /\ RTrim(v.s) # <<>> /\ Len(RTrim(v.s)) < StringRule.min_length)
            /\ ~(FlagIs(env, JunkFlag, 1) /\ FlagIs(env, MissFlag, 1))

\* C10 witness: a one-character answer under min_length = 2 was flagged as junk,
\* and not as missing.
C10_Witness ==
    /\ Ran /\ app = "nov" /\ string_rules # <<>> /\ InData(<<StringRule.variable>>)
    /\ StringRule.min_length = 2 /\ ~StringRule.run_skip
    /\ row[StringRule.variable] = StrV(<<"a">>)
    /\ FlagIs(env, JunkFlag, 1) /\ FlagIs(env, MissFlag, 0)

----------------------------------------------------------------------------
(* Properties of the straightline rule *)

\* The rating grid rule of the session, its first variable and its flag.
SlRule == straightliner_rules[1]

SlFirst == SlRule.variables[1]

SlFlag ==
    IF app = "app" THEN FLAG_PREFIX \o SlRule.group_name \o Suffix_Str
    ELSE FLAG_PREFIX \o SplitFirst(SlFirst) \o Suffix_MaxStr

\* The values the respondent gave across the grid (the items left missing give none).
SlObserved ==
    {row[SlRule.variables[i]].n : i \in {j \in 1..Len(SlRule.variables) : row[SlRule.variables[j]].k = "num"}}

\* A script ran on a respondent whose file holds the grid of the rule.
SlRan == Ran /\ straightliner_rules # <<>> /\ InData(SlRule.variables)

C12_AnyAnswered ==
    SlRan => (Cardinality(SlObserved) = 1 => FlagIs(env, SlFlag, 1))

----------------------------------------------------------------------------
(* Properties of the flag names *)

\* The flags the IF statements of the lines assign.
AssignedFlags(lines) == {lines[i].tgt : i \in {j \in 1..Len(lines) : lines[j].s = "if"}}

\* One compiled rule: the variables it is about, its lines and the flags it returns
\* (27app.py returns lines only: its flags are those the lines assign).
Compiled(subject, lines, flags) == [subject |-> subject, syntax |-> lines, flags |-> flags]

CompiledApp(subject, lines) == Compiled(subject, lines, AssignedFlags(lines))

CompiledNov(subject, block) == Compiled(subject, block.syntax, Elems(block.flags))

\* The compiled blocks of the saved rules, in the order the script holds them.
RuleBlocks ==
    IF app = "app"
    THEN [i \in 1..Len(sq_rules) |->
             CompiledApp({sq_rules[i].variable}, generate_sq_spss_syntax_app(sq_rules[i]))]
         \o [i \in 1..Len(mq_rules) |->
               CompiledApp(Elems(mq_rules[i].variables), generate_mq_spss_syntax_app(mq_rules[i]))]
         \o [i \in 1..Len(string_rules) |->
               CompiledApp({string_rules[i].variable}, generate_string_spss_syntax_app(string_rules[i]))]
         \o [i \in 1..Len(straightliner_rules) |->
               CompiledApp(Elems(straightliner_rules[i].variables),
                           generate_straightliner_spss_syntax_app(straightliner_rules[i]))]
    ELSE [i \in 1..Len(sq_rules) |->
             CompiledNov({sq_rules[i].variable}, generate_sq_spss_syntax(sq_rules[i]))]
         \o [i \in 1..Len(mq_rules) |->
               CompiledNov(Elems(mq_rules[i].variables), generate_mq_spss_syntax(mq_rules[i]))]
         \o [i \in 1..Len(straightliner_rules) |->
               CompiledNov(Elems(straightliner_rules[i].variables),
                           generate_straightliner_spss_syntax(straightliner_rules[i].variables))]
         \o [i \in 1..Len(string_rules) |->
               CompiledNov({string_rules[i].variable}, generate_string_spss_syntax(string_rules[i]))]

\* No variable belongs to two of the saved rules.
DistinctSubjects ==
    \A i, j \in 1..Len(RuleBlocks) : i # j => RuleBlocks[i].subject \cap RuleBlocks[j].subject = {}

\* C13: when the variables and groups of the saved rules are pairwise distinct, no
\* flag name is returned by the blocks of two different rules.
C13_DisjointFlags ==
    DistinctSubjects =>
        \A i, j \in 1..Len(RuleBlocks) : i # j => RuleBlocks[i].flags \cap RuleBlocks[j].flags = {}

\* The kind of check a heading comment opens.
KindOfHeading(text) ==
    CASE text = "SQ Check" -> "range"
      [] text = "SQ Missing/Range Check" -> "range"
      [] text = "SQ Specific Stub Check" -> "stub"
      [] text = "OTHER SPECIFY (Forward) Check" -> "other-specify forward"
      [] text = "OTHER SPECIFY (Reverse) Check" -> "other-specify reverse"
      [] text = "SQ Filter Flag for Skip/Piping" -> "filter"
      [] text = "SKIP LOGIC FILTER FLAG" -> "filter"
      [] text = "SKIP LOGIC EoO/EoC CHECK" -> "skip"
      [] text = "PIPING (EOO) Check" -> "piping"
      [] text = "PIPING (EOC / Reverse) Check" -> "piping"
      [] text = "MQ Check for" -> "minimum count"
      [] text = "MQ Minimum Count Check" -> "minimum count"
      [] text = "MQ Maximum Count Check" -> "maximum count"
      [] text = "MQ Exclusive Stub Check" -> "exclusive"
      [] text = "OE Check" -> "open-end missing"
      [] text = "String Missing Check" -> "open-end missing"
      [] text = "String Junk Check" -> "junk"
      [] text = "Straightliner" -> "straightliner"
      [] text = "STRAIGHTLINER CHECK" -> "straightliner"
      [] text = "Ranking Duplicate Check" -> "ranking duplicate"
      [] text = "Ranking Range Check" -> "ranking range"
      [] OTHER -> "none"

\* The line is a comment that opens a check.
IsHeading(x) == x.s = "comment" /\ KindOfHeading(x.text) # "none"

\* The kind of check the IF statement at line i of a block belongs to: that of the
\* heading above it; in 27app.py the second IF under a heading is the skip check.
KindAt(lines, i) ==
    LET h == CHOOSE j \in 1..i : IsHeading(lines[j]) /\ \A k \in (j + 1)..i : ~IsHeading(lines[k])
    IN  IF app = "app" /\ lines[i - 1].s = "if" THEN "skip" ELSE KindOfHeading(lines[h].text)

\* The checks of a block: the kind and the flag of each of its IF statements.
ChecksOf(lines) ==
    {<<KindAt(lines, i), lines[i].tgt>> : i \in {j \in 1..Len(lines) : lines[j].s = "if"}}

\* The checks of all the saved rules, each with the name of its variable or group.
AllChecks == UNION {ChecksOf(RuleBlocks[i].syntax) : i \in 1..Len(RuleBlocks)}

\* C14: no flag name is assigned by two different kinds of check.
C14_OneKindPerFlag ==
    \A c, d \in AllChecks : c[2] = d[2] => c[1] = d[1]

(***************************************************************************)
(* Properties of the saved rules and the loaded data                         *)
(***************************************************************************)

\* The rule of a compiled block references a variable that the loaded file lacks.
UnknownVariable(block) == ~(block.subject \subseteq Elems(all_cols))

\* The statements of a compiled block that the generated script holds.
EmittedFor(block) ==
    {i \in 1..Len(block.syntax) : block.syntax[i].s # "comment" /\ block.syntax[i] \in Elems(script)}

\* C15: a rule on a variable absent from the loaded columns emits no statement
\* into the generated script.
C15_UnknownVariable ==
    phase = "generated" =>
        \A i \in 1..Len(RuleBlocks) : UnknownVariable(RuleBlocks[i]) => EmittedFor(RuleBlocks[i]) = {}

\* C16: every stored single-select rule has min_val <= max_val.
C16_MinLeMax ==
    \A i \in 1..Len(sq_rules) : sq_rules[i].min_val <= sq_rules[i].max_val

\* The stored rules on a group of variables.
GroupRules == mq_rules \o straightliner_rules

\* C17: every stored multi-select and straightliner rule has a non-empty list of
\* variables (a selection of no variable is never stored).
C17_NonEmptyGroups ==
    \A i \in 1..Len(GroupRules) : GroupRules[i].variables # <<>>

\* C17 witness: a multi-select rule and a straightliner rule are stored.
C17_Witness ==
    /\ mq_rules # <<>>
    /\ straightliner_rules # <<>>
    /\ C17_NonEmptyGroups

(***************************************************************************)
(* Properties of the final script                                            *)
(***************************************************************************)

\* The flag names the compiled blocks of the saved rules return.
ReturnedFlags == UNION {RuleBlocks[i].flags : i \in 1..Len(RuleBlocks)}

\* The places of the script where a statement of the kind lists the name.
Listings(lines, kind, f) ==
    UNION {{<<i, k>> : k \in {n \in 1..Len(lines[i].names) : lines[i].names[n] = f}} :
             i \in {j \in 1..Len(lines) : lines[j].s = kind}}

\* The script ends with the computation of Master_Reject_Count, followed by the
\* FREQUENCIES command as its last statement.
EndsWithReport(lines) ==
    /\ lines # <<>>
    /\ lines[Len(lines)].s = "frequencies"
    /\ \E i \in 1..Len(lines) :
         /\ lines[i].s = "compute"
         /\ lines[i].tgt = Name_Master_Reject_Count
         /\ \A j \in (i + 1)..Len(lines) :
              lines[j].s \in {"variablelabels", "execute", "deleteprefix", "line", "frequencies"}

\* C18: in the generated script every returned flag other than a _Count variable is
\* declared once and set to 0 once, and the script ends with the reject count and
\* the frequency report.
C18_Assembly ==
    phase = "generated" =>
        /\ \A f \in ReturnedFlags :
             ~EndsWith(f, Suffix_Count) =>
                 /\ Cardinality(Listings(script, "numeric", f)) = 1
                 /\ Cardinality(Listings(script, "recode0", f)) = 1
        /\ EndsWithReport(script)

\* The final error flags of the working file: the variables named with the flag
\* prefix, other than the _Count variables.
FinalErrorFlags(st) == {f \in DOMAIN st : StartsWith(f, FLAG_PREFIX) /\ ~EndsWith(f, Suffix_Count)}

\* The final error flags whose value is greater than 0.
RaisedFlags(st) == {f \in FinalErrorFlags(st) : st[f].k = "num" /\ st[f].n > 0}

\* C19: after the script of 27novapp.py has run on a respondent, Master_Reject_Count
\* is the number of final error flags with a value greater than 0 (a flag of value
\* 2 counts once; the Flag_ filter flags and the _Count variables are not counted).
C19_RejectCount ==
    (Ran /\ app = "nov") => FlagIs(env, Name_Master_Reject_Count, Cardinality(RaisedFlags(env)))

\* The place of a section heading in the script (0 when the script lacks it).
SectionAt(lines, text) ==
    IF \E i \in 1..Len(lines) : lines[i] = Line(text)
    THEN CHOOSE i \in 1..Len(lines) : lines[i] = Line(text)
    ELSE 0

\* The places of the validation statements: the lines between the headings 1 and 2.
ValidationPlaces(lines) ==
    {i \in 1..Len(lines) : /\ SectionAt(lines, "1. DETAILED VALIDATION LOGIC") # 0
                           /\ i > SectionAt(lines, "1. DETAILED VALIDATION LOGIC")
                           /\ i < SectionAt(lines, "2. VALUE LABELS & VARIABLE INITIALIZATION")}

\* The statement assigns or tests the variable.
Touches(x, f) == f \in DefinedVars(<<x>>) \cup TestedVars(<<x>>)

\* The variable is declared and set to 0 before the line at place i.
InitialisedBefore(lines, f, i) ==
    \E d \in 1..(i - 1) : /\ lines[d].s = "numeric"
                          /\ f \in Elems(lines[d].names)
                          /\ \E z \in (d + 1)..(i - 1) : lines[z].s = "recode0" /\ f \in Elems(lines[z].names)

\* The validation statements are the blocks of the rules, by rule type and, within
\* a type, in the order the rules are stored.
BlocksInOrder(lines) ==
    [k \in 1..Cardinality(ValidationPlaces(lines)) |->
        lines[SectionAt(lines, "1. DETAILED VALIDATION LOGIC") + k]]
    = Flatten([i \in 1..Len(RuleBlocks) |-> RuleBlocks[i].syntax])

\* The validation statements precede the reject count, and the report is last.
SectionsInOrder(lines, flags) ==
    /\ \A i \in ValidationPlaces(lines) : \A f \in flags :
         Touches(lines[i], f) => InitialisedBefore(lines, f, i)
    /\ \A i \in 1..Len(lines) :
         (lines[i].s = "compute" /\ lines[i].tgt = Name_Master_Reject_Count)
             => \A j \in ValidationPlaces(lines) : j < i
    /\ EndsWithReport(lines)

\* The script of 27novapp.py has been generated.
MasterGenerated == phase = "generated" /\ app = "nov"

\* C20: in the script of 27novapp.py every flag other than a _Count variable is
\* declared and set to 0 before the validation statements that assign or test it,
\* the validation statements precede the reject count, the frequency report is
\* last, and the blocks stand in rule-type order and stored order.
C20_Order ==
    MasterGenerated =>
        /\ SectionsInOrder(script, {f \in ReturnedFlags : ~EndsWith(f, Suffix_Count)})
        /\ BlocksInOrder(script)

\* C20 witness: a script with a string block after a single-select block, both
\* after the initialisation of their flags.
C20_Witness ==
    /\ MasterGenerated
    /\ sq_rules # <<>> /\ string_rules # <<>>
    /\ C20_Order

(***************************************************************************)
(* Properties of the base names                                              *)
(***************************************************************************)

\* The endings of the identifiers that carry a base name.
BaseSuffixes ==
    {Suffix_Min, Suffix_Max, Suffix_Exclusive, Suffix_OtherFwd, Suffix_OtherRev, Suffix_MaxStr,
     Suffix_Str, Suffix_Dup, Suffix_Rng, <<>>}

\* The identifiers a block can build on the base name.
NamedOn(base) ==
    {FLAG_PREFIX \o base \o x : x \in BaseSuffixes}
    \cup {base \o Suffix_Count, base \o Suffix_Sum, Flag_ \o base}

\* The identifiers the lines assign other than scratch variables.
Identifiers(lines) == {f \in DefinedVars(lines) : f[1] # "#"}

\* The blocks of the stored rules on a group, each with the first variable of the group.
GroupBlocks ==
    IF app = "app"
    THEN [i \in 1..Len(mq_rules) |->
             [first |-> mq_rules[i].variables[1],
              names |-> Identifiers(generate_mq_spss_syntax_app(mq_rules[i]))]]
         \o [i \in 1..Len(straightliner_rules) |->
               [first |-> straightliner_rules[i].variables[1],
                names |-> Identifiers(generate_straightliner_spss_syntax_app(straightliner_rules[i]))]]
    ELSE [i \in 1..Len(mq_rules) |->
             [first |-> mq_rules[i].variables[1],
              names |-> Identifiers(generate_mq_spss_syntax(mq_rules[i]).syntax)]]
         \o [i \in 1..Len(straightliner_rules) |->
               [first |-> straightliner_rules[i].variables[1],
                names |-> Identifiers(generate_straightliner_spss_syntax(straightliner_rules[i].variables).syntax)]]

\* The skip flags of the stored rules on one variable, each with that variable.
SkipBlocks ==
    IF app = "app" THEN <<>>
    ELSE [i \in 1..Len(sq_rules) |->
             [first |-> sq_rules[i].variable,
              names |-> {f \in Elems(generate_sq_spss_syntax(sq_rules[i]).flags) : StartsWith(f, Flag_)}]]
         \o [i \in 1..Len(string_rules) |->
               [first |-> string_rules[i].variable,
                names |-> {f \in Elems(generate_string_spss_syntax(string_rules[i]).flags) :
                              StartsWith(f, Flag_)}]]

\* C21: the identifiers of a block are built on the token before the first
\* underscore of the first variable's name (the whole name without an underscore),
\* for the multi-select and straightliner blocks and for the skip filter flags.
C21_BaseName ==
    \A i \in 1..Len(GroupBlocks \o SkipBlocks) :
        LET b == (GroupBlocks \o SkipBlocks)[i]
        IN  b.names \subseteq NamedOn(SplitFirst(b.first))

(***************************************************************************)
(* Properties of the single-select block                                     *)
(***************************************************************************)

\* The lines hold a heading comment with the text.
HasHeading(lines, text) == \E i \in 1..Len(lines) : lines[i].s = "comment" /\ lines[i].text = text

\* What the block of one stored single-select rule of 27novapp.py holds.
SqEmits(rule, text) == HasHeading(generate_sq_spss_syntax(rule).syntax, text)

\* The checks of one stored single-select rule are emitted as its switches say.
SqChecksFit(rule) ==
    LET piping == SqEmits(rule, "PIPING (EOO) Check")
        skip == SqEmits(rule, "SKIP LOGIC EoO/EoC CHECK")
    IN  /\ SqEmits(rule, "SQ Missing/Range Check") <=> ~rule.run_piping_check
        /\ ~(piping /\ skip)
        /\ (rule.run_skip /\ rule.run_piping_check /\ rule.piping_source_col # SELECT_VARIABLE)
               => (piping /\ ~skip)
        /\ ((rule.run_skip \/ rule.run_piping_check) /\ rule.trigger_col # SELECT_VARIABLE)
               => SqEmits(rule, "SQ Filter Flag for Skip/Piping")

\* C22: in 27novapp.py the range check of a single-select rule is emitted exactly
\* when its piping check is off, the piping and the skip check are never emitted
\* together (piping wins when both are on), and the filter flag is emitted when
\* either is on with a trigger variable.
C22_SqChecks ==
    app = "nov" => \A i \in 1..Len(sq_rules) : SqChecksFit(sq_rules[i])

\* C22 witness: the script of a rule with both switches on has been generated; it
\* holds the piping check and no skip check.
C22_Witness ==
    /\ app = "nov" /\ phase = "generated"
    /\ \E i \in 1..Len(sq_rules) :
         /\ sq_rules[i].run_skip /\ sq_rules[i].run_piping_check
         /\ HasHeading(script, "PIPING (EOO) Check")
         /\ ~HasHeading(script, "SKIP LOGIC EoO/EoC CHECK")
         /\ SqChecksFit(sq_rules[i])

(***************************************************************************)
(* Properties of the loading of a file                                       *)
(***************************************************************************)

\* C23: whenever load_data_file has come to an end, normally or with an error, the
\* temporary file it made for the SPSS upload is gone: none is left on the disk.
C23_TempRemoved == tmp_files = {}

\* The places of the file's columns that 27app.py keeps: the lower-cased name is no
\* system variable.
KeptPlaces(file) == {i \in 1..Len(file.cols) : Lower(file.cols[i]) \notin SYSTEM_VARS}

\* xs holds exactly the columns at the kept places, in the order of the file.
InFileOrder(xs, file) ==
    /\ Len(xs) = Cardinality(KeptPlaces(file))
    /\ \A k \in 1..Len(xs) :
         \E i \in KeptPlaces(file) :
             /\ xs[k] = file.cols[i]
             /\ Cardinality({j \in KeptPlaces(file) : j < i}) = k - 1

\* The groups are of two or more columns with an underscore, and share no column.
GroupsWellFormed(groups) ==
    /\ \A b \in DOMAIN groups :
         /\ Len(groups[b]) > 1
         /\ \A k \in 1..Len(groups[b]) : HasUnderscore(groups[b][k])
    /\ \A b, c \in DOMAIN groups : b # c => Elems(groups[b]) \cap Elems(groups[c]) = {}

\* C24: after a load of 27app.py all_cols is the file's columns without the system
\* variables, in file order, var_types has one entry (String or Numeric) for each
\* of them, and the detected groups are well formed.
C24_LoadedColumns ==
    app = "app" =>
        /\ InFileOrder(all_cols, uploaded_file)
        /\ \A k \in 1..Len(all_cols) : Lower(all_cols[k]) \notin SYSTEM_VARS
        /\ DOMAIN var_types = Elems(all_cols)
        /\ \A c \in DOMAIN var_types : var_types[c] \in {"String", "Numeric"}
        /\ GroupsWellFormed(get_variable_groups(all_cols))

\* C24 witness: a file with the system variable ID has been loaded after a failed
\* load; ID is not offered, and a group has been detected.
C24_Witness ==
    /\ app = "app"
    /\ uploaded_file = ShortFile
    /\ load_error = "none" /\ tmp_files # {}
    /\ ID \in Elems(uploaded_file.cols) /\ ID \notin Elems(all_cols)
    /\ Q1 \in DOMAIN get_variable_groups(all_cols)
    /\ C24_LoadedColumns

(***************************************************************************)
(* Properties of the omission and commission statements                      *)
(***************************************************************************)

\* The pairs of an omission statement (flag = 1) and a commission statement
\* (flag = 2) of one flag, by their places in the lines.
OmissionCommission(lines) ==
    {p \in (1..Len(lines)) \X (1..Len(lines)) :
        /\ lines[p[1]].s = "if" /\ lines[p[2]].s = "if"
        /\ lines[p[1]].tgt = lines[p[2]].tgt
        /\ lines[p[1]].val = 1 /\ lines[p[2]].val = 2}

\* The IF at place i fires when the lines run on the respondent: its condition is
\* true on the working file the lines before it have made.
Fires(lines, respondent, i) ==
    Eval(Steps(lines, Machine(respondent, 1, "F"), i - 1, TRUE).st, lines[i].cond) = "T"

\* C25: on every respondent the omission statement and the commission statement
\* of one flag do not both fire (27novapp.py: skip and piping checks).
C25_Exclusive ==
    (Ran /\ app = "nov") =>
        \A p \in OmissionCommission(script) : ~(Fires(script, row, p[1]) /\ Fires(script, row, p[2]))

\* C25 witness: a piping check has run on a respondent whose commission statement
\* fired, and its omission statement did not.
C25_Witness ==
    /\ Ran /\ app = "nov"
    /\ HasHeading(script, "PIPING (EOO) Check")
    /\ \E p \in OmissionCommission(script) : Fires(script, row, p[2]) /\ ~Fires(script, row, p[1])

(***************************************************************************)
(* Properties of the editing of the rules                                    *)
(***************************************************************************)

\* The rules hold at most one rule for each variable.
OnePerVariable(rules) == \A i, j \in 1..Len(rules) : rules[i].variable = rules[j].variable => i = j

\* The rules on variables outside the batch, in their order.
Outside(rules, batch) == SelectSeq(rules, LAMBDA r : r.variable \notin Elems(batch))

\* What a save of the pending batch does to the single-select rules.
BatchSaved ==
    /\ Outside(sq_rules', sq_batch_vars) = Outside(sq_rules, sq_batch_vars)
    /\ \A k \in 1..Len(sq_batch_vars) :
         Cardinality({i \in 1..Len(sq_rules') : sq_rules'[i].variable = sq_batch_vars[k]}) = 1
    /\ sq_batch_vars' = <<>>

\* C26: in 27novapp.py sq_rules and string_rules hold at most one rule for each
\* variable after every step, and a save of the single-select batch replaces the
\* rules of the batch variables, leaves the other rules as they were and in their
\* order, and empties the batch.
C26_BatchSave ==
    [][/\ SaveSqBatch => BatchSaved
       /\ OnePerVariable(sq_rules') /\ OnePerVariable(string_rules')]_vars

\* C26 witness: two single-select rules from two saves (one with the skip check, one
\* without) are stored and no batch is pending: the later save kept the earlier rule.
C26_Witness ==
    /\ app = "nov"
    /\ Len(sq_rules) = 2
    /\ sq_rules[1].run_skip # sq_rules[2].run_skip
    /\ sq_batch_vars = <<>>
    /\ OnePerVariable(sq_rules)

\* The list a rule type names, after the step.
RulesAfter(rule_type) ==
    CASE rule_type = "sq" -> sq_rules'
      [] rule_type = "mq" -> mq_rules'
      [] rule_type = "ranking" -> ranking_rules'
      [] rule_type = "string" -> string_rules'
      [] rule_type = "straightliner" -> straightliner_rules'

\* The sequence without its element at place k.
WithoutPlace(xs, k) == [i \in 1..(Len(xs) - 1) |-> IF i < k THEN xs[i] ELSE xs[i + 1]]

\* The step removes the rule at place k of one list and changes no other list.
RemovedOne(rule_type, k) ==
    /\ RulesAfter(rule_type) = WithoutPlace(RulesOf(rule_type), k)
    /\ \A other \in (RuleTypes \cup {"ranking"}) \ {rule_type} : RulesAfter(other) = RulesOf(other)

\* C28: delete_rule removes exactly the rule at the index from the list of the rule
\* type, keeps the order of the rest and leaves the four other lists unchanged;
\* clear_all_rules leaves the five lists empty.
C28_DeleteClear ==
    [][/\ \A rule_type \in RuleTypes :
            \A index \in 0..(Len(RulesOf(rule_type)) - 1) :
                delete_rule(rule_type, index) => RemovedOne(rule_type, index + 1)
       /\ ClearAll => \A rule_type \in RuleTypes \cup {"ranking"} : RulesAfter(rule_type) = <<>>]_vars

\* C28 witness: the rule of Q1_2 stands alone; it was saved in the batch Q1_1, Q1_2
\* (the file offers no batch of Q1_2 alone) and the rule of Q1_1 has been deleted.
C28_Witness ==
    /\ app = "nov"
    /\ uploaded_file = ShortFile
    /\ Len(sq_rules) = 1
    /\ sq_rules[1].variable = Q1_2

(***************************************************************************)
(* Properties of the switches of the stored rules                            *)
(***************************************************************************)

\* A trigger variable is selected in the rule.
TriggerSelected(rule) == rule.trigger_col # SELECT_VARIABLE /\ rule.trigger_col # NoName

\* A stored single-select rule: its switches are on only with their variables
\* selected, and a switch that is on yields the filter flag and its check.
SqSwitchesFit(rule) ==
    /\ rule.run_skip => TriggerSelected(rule)
    /\ rule.run_piping_check => (TriggerSelected(rule) /\ rule.piping_source_col # SELECT_VARIABLE)
    /\ (rule.run_skip \/ rule.run_piping_check) =>
           /\ SqEmits(rule, "SQ Filter Flag for Skip/Piping")
           /\ SqEmits(rule, "SKIP LOGIC EoO/EoC CHECK") \/ SqEmits(rule, "PIPING (EOO) Check")

\* A stored multi-select or open-end rule with its block: the same for its skip switch.
SkipSwitchFits(rule, lines) ==
    /\ rule.run_skip => TriggerSelected(rule)
    /\ rule.run_skip => (HasHeading(lines, "SKIP LOGIC FILTER FLAG")
                         /\ HasHeading(lines, "SKIP LOGIC EoO/EoC CHECK"))

\* C27: in 27novapp.py every stored rule has run_skip on only with a trigger
\* variable selected and run_piping_check on only with a trigger and a piping source
\* selected, and a rule with a switch on yields its filter flag and its check.
C27_Switches ==
    app = "nov" =>
        /\ \A i \in 1..Len(sq_rules) : SqSwitchesFit(sq_rules[i])
        /\ \A i \in 1..Len(mq_rules) :
             SkipSwitchFits(mq_rules[i], generate_mq_spss_syntax(mq_rules[i]).syntax)
        /\ \A i \in 1..Len(string_rules) :
             SkipSwitchFits(string_rules[i], generate_string_spss_syntax(string_rules[i]).syntax)

\* C27 witness: the script of an open-end rule with the skip switch on has been
\* generated and holds the filter flag and the skip check.
C27_Witness ==
    /\ app = "nov" /\ phase = "generated"
    /\ string_rules # <<>>
    /\ string_rules[1].run_skip
    /\ HasHeading(script, "SKIP LOGIC FILTER FLAG")
    /\ HasHeading(script, "SKIP LOGIC EoO/EoC CHECK")

(***************************************************************************)
(* Properties of the block of a single rule                                  *)
(***************************************************************************)

\* No flag name is listed twice.
ListedOnce(flags) == \A i, j \in 1..Len(flags) : flags[i] = flags[j] => i = j

\* The places of a block whose statement assigns a flag.
Assigning(lines, flag) == {i \in 1..Len(lines) : lines[i].s = "if" /\ lines[i].tgt = flag}

\* The block of a single-select rule lists each flag once, and assigns its filter
\* flag in one statement when a skip or piping check is on.
SqBlockFits(rule) ==
    LET block == generate_sq_spss_syntax(rule)
        filter_flag == Flag_ \o TargetClean(rule.variable)
    IN  /\ ListedOnce(block.flags)
        /\ (rule.run_skip \/ rule.run_piping_check) =>
               Cardinality(Assigning(block.syntax, filter_flag)) = 1

\* C29: the flag list returned by compiling a single rule holds each flag name at
\* most once, and the statement assigning the filter flag Flag_<base> appears
\* exactly once in the block of the rule, whichever checks are enabled.
C29_OnceEach ==
    app = "nov" => \A i \in 1..Len(sq_rules) : SqBlockFits(sq_rules[i])

=============================================================================
